---- MODULE Spec2Model ----
(***************************************************************************)
(* Model of the MIDI Chord Transformer core: the SMF codec, the note       *)
(* aggregator, the chord segmenter and namer, the voice-leading            *)
(* transformer, the action journal and the detection cache.                *)
(*                                                                         *)
(* Conventions.  A byte buffer is a sequence of naturals in 0..255; the    *)
(* code's 0-based offset p is element p+1 of the sequence.  A std::string  *)
(* is a sequence of one-character strings.  shared_ptr<Chord> is an index  *)
(* into the variable heap, so two owners of one pointer see one object.    *)
(***************************************************************************)
EXTENDS Integers, Sequences, FiniteSets, TLC

VARIABLES
    midiFile,        \* MidiProcessor::midiFile (format, numTracks, division, tracks)
    notes,           \* MidiProcessor::notes
    chords,          \* MidiProcessor::chords: sequence of heap addresses
    heap,            \* the Chord objects the shared_ptrs point to
    timeTolerance,   \* MidiProcessor::timeTolerance
    currentFilename, \* MidiProcessor::currentFilename
    detectionCache,  \* MidiProcessor::detectionCache: hash -> sequence of heap addresses
    history,         \* ActionManager::history (actions, currentPosition)
    outFile,         \* bytes of the file written by the last writeMidiFile
    lastCall,        \* the API call that produced this state and its result
    nCalls,          \* number of API calls made so far
    born,            \* per heap address: the notes and name given by detectChords
    expect,          \* per journal cursor position: the chord values held there
    firstLoad,       \* per file name: the chord values right after its first load
    codec,           \* state of the stand-alone codec runs (SpecCodec)
    lab,             \* input and result of a stand-alone run of one function
    ub               \* a read outside a vector or a buffer has returned a value

vars == <<midiFile, notes, chords, heap, timeTolerance, currentFilename,
          detectionCache, history, outFile, lastCall, nCalls, born, expect,
          firstLoad, codec, lab, ub>>

(***************************************************************************)
(* Small helpers                                                           *)
(***************************************************************************)
Min2(a, b) == IF a < b THEN a ELSE b
Max2(a, b) == IF a > b THEN a ELSE b
Abs(x) == IF x < 0 THEN -x ELSE x
Range(s) == {s[i] : i \in DOMAIN s}

RECURSIVE SeqMin(_)
SeqMin(s) == IF Len(s) = 1 THEN s[1] ELSE Min2(s[1], SeqMin(Tail(s)))

RECURSIVE SeqMax(_)
SeqMax(s) == IF Len(s) = 1 THEN s[1] ELSE Max2(s[1], SeqMax(Tail(s)))

\* std::sort on integers: ascending, duplicates kept
RECURSIVE InsertSorted(_, _)
InsertSorted(x, s) ==
    IF s = <<>> THEN <<x>>
    ELSE IF x < s[1] THEN <<x>> \o s
    ELSE <<s[1]>> \o InsertSorted(x, Tail(s))

RECURSIVE SortAsc(_)
SortAsc(s) == IF s = <<>> THEN <<>> ELSE InsertSorted(s[1], SortAsc(Tail(s)))

\* a sorted range left with its duplicates
KeepDuplicates(s) == s

\* std::unique on a sorted range
RECURSIVE Unique(_)
Unique(s) ==
    IF Len(s) <= 1 THEN s
    ELSE IF s[1] = s[2] THEN Unique(Tail(s))
    ELSE <<s[1]>> \o Unique(Tail(s))

RECURSIVE Concat(_)
Concat(ss) == IF ss = <<>> THEN <<>> ELSE ss[1] \o Concat(Tail(ss))

\* byte at 0-based offset p; a read at or past the end of the vector is
\* undefined behaviour and yields the byte g the build happens to find there
ByteAt(buf, p, g) == IF p < Len(buf) THEN buf[p + 1] ELSE g

(***************************************************************************)
(* SMF codec: integers and variable-length quantities                      *)
(***************************************************************************)
\* (value << 7) | (byte & 0x7F) on a uint32_t
Shl7Or(value, byte) == (value % 33554432) * 128 + (byte % 128)

RECURSIVE ReadVL(_, _, _)
ReadVL(data, position, value) ==
    IF position >= Len(data)
    THEN [value |-> 0, position |-> position]
    ELSE LET byte == data[position + 1]
             v == Shl7Or(value, byte)
         IN IF byte >= 128
            THEN ReadVL(data, position + 1, v)
            ELSE [value |-> v, position |-> position + 1]

readVariableLength(data, position) == ReadVL(data, position, 0)

\* the continuation bytes pushed by while (value >>= 7), in push order
RECURSIVE VLTail(_)
VLTail(value) ==
    IF value \div 128 = 0 THEN <<>>
    ELSE <<((value \div 128) % 128) + 128>> \o VLTail(value \div 128)

RECURSIVE Reverse(_)
Reverse(s) == IF s = <<>> THEN <<>> ELSE Reverse(Tail(s)) \o <<s[1]>>

\* a writer that keeps only the low seven bits of a value
writeVariableLengthLowGroup(value) == <<value % 128>>

writeVariableLength(value) == Reverse(<<value % 128>> \o VLTail(value))

read16BE(data, position) ==
    IF position + 1 >= Len(data) THEN 0
    ELSE data[position + 1] * 256 + data[position + 2]

write16BE(value) == <<(value \div 256) % 256, value % 256>>

read32BE(data, position) ==
    IF position + 3 >= Len(data) THEN 0
    ELSE data[position + 1] * 16777216 + data[position + 2] * 65536
         + data[position + 3] * 256 + data[position + 4]

write32BE(value) ==
    <<(value \div 16777216) % 256, (value \div 65536) % 256,
      (value \div 256) % 256, value % 256>>

(***************************************************************************)
(* SMF codec: the reader                                                   *)
(***************************************************************************)
NOTE_OFF == 128
NOTE_ON == 144
POLY_AFTERTOUCH == 160
CONTROL_CHANGE == 176
PROGRAM_CHANGE == 192
CHANNEL_AFTERTOUCH == 208
PITCH_BEND == 224
META_EVENT == 255
TRACK_NAME == 3

\* "Unnamed Track", the name MidiTrack() gives a track
UnnamedTrack == <<85, 110, 110, 97, 109, 101, 100, 32, 84, 114, 97, 99, 107>>

NewMidiTrack == [name |-> UnnamedTrack, events |-> <<>>]
NewMidiFile == [format |-> 1, numTracks |-> 0, division |-> 480, tracks |-> <<>>]

\* number of data bytes the switch of loadMidiFile reads for an event type,
\* -1 for the default branch
DataBytes(eventType) ==
    IF eventType \in {NOTE_OFF, NOTE_ON, POLY_AFTERTOUCH, CONTROL_CHANGE, PITCH_BEND}
    THEN 2
    ELSE IF eventType \in {PROGRAM_CHANGE, CHANNEL_AFTERTOUCH} THEN 1
    ELSE -1

\* a resynchronisation that goes back to the byte before the read position
ResyncBackwards(buffer, position, trackEnd) == position - 1

\* while (position < trackEnd && !(buffer[position] & 0x80)) position++
RECURSIVE SkipToStatus(_, _, _)
SkipToStatus(buffer, position, trackEnd) ==
    IF position < trackEnd /\ buffer[position + 1] < 128
    THEN SkipToStatus(buffer, position + 1, trackEnd)
    ELSE position

\* one iteration of the event loop of a track, entered with position < trackEnd
\* st = [position, runningStatus, track, oob]
ParseEvent(buffer, trackEnd, st, g) ==
    LET dt == readVariableLength(buffer, st.position)
        p1 == dt.position
        sb == ByteAt(buffer, p1, g)
        hasStatus == sb >= 128
        status == IF hasStatus THEN sb ELSE st.runningStatus
        running == IF hasStatus THEN sb ELSE st.runningStatus
        p2 == IF hasStatus THEN p1 + 1 ELSE p1
        oob1 == st.oob \/ p1 >= Len(buffer)
    IN
    IF status = META_EVENT THEN
        LET metaType == ByteAt(buffer, p2, g)
            ln == readVariableLength(buffer, p2 + 1)
            p3 == ln.position
            data == [k \in 1..ln.value |-> ByteAt(buffer, p3 + k - 1, g)]
            event == [deltaTime |-> dt.value, status |-> status, data |-> data,
                      isMetaEvent |-> TRUE, metaType |-> metaType]
            track == [name |-> IF metaType = TRACK_NAME THEN data ELSE st.track.name,
                      events |-> Append(st.track.events, event)]
        IN [position |-> p3 + ln.value, runningStatus |-> running, track |-> track,
            oob |-> oob1 \/ p2 >= Len(buffer) \/ p3 + ln.value > Len(buffer)]
    ELSE
        LET n == DataBytes((status \div 16) * 16)
        IN IF n = -1
           THEN [position |-> SkipToStatus(buffer, p2, trackEnd),
                 runningStatus |-> running, track |-> st.track, oob |-> oob1]
           ELSE
             LET data == [k \in 1..n |-> ByteAt(buffer, p2 + k - 1, g)]
                 event == [deltaTime |-> dt.value, status |-> status, data |-> data,
                           isMetaEvent |-> FALSE, metaType |-> 0]
             IN [position |-> p2 + n, runningStatus |-> running,
                 track |-> [st.track EXCEPT !.events = Append(@, event)],
                 oob |-> oob1 \/ p2 + n > Len(buffer)]

\* the event loop of one track: while (position < trackEnd) { ... }
RECURSIVE ParseEvents(_, _, _, _)
ParseEvents(buffer, trackEnd, st, g) ==
    IF st.position >= trackEnd THEN st
    ELSE ParseEvents(buffer, trackEnd, ParseEvent(buffer, trackEnd, st, g), g)

\* the track loop: for (i = 0; i < numTracks; i++) { ... }
\* returns [ok, error, midiFile, oob]; midiFile is the member as the call leaves it
RECURSIVE ParseTracks(_, _, _, _, _, _)
ParseTracks(buffer, position, i, mf, oob, g) ==
    IF i >= mf.numTracks
    THEN [ok |-> TRUE, error |-> "", midiFile |-> mf, oob |-> oob]
    ELSE IF position + 8 > Len(buffer)
            \/ buffer[position + 1] # 77 \/ buffer[position + 2] # 84
            \/ buffer[position + 3] # 114 \/ buffer[position + 4] # 107
    THEN [ok |-> FALSE, error |-> "Invalid track header", midiFile |-> mf, oob |-> oob]
    ELSE
    LET trackLength == read32BE(buffer, position + 4)
        start == position + 8
        trackEnd == start + trackLength
    IN IF trackEnd > Len(buffer)
       THEN [ok |-> FALSE, error |-> "Track length exceeds file size",
             midiFile |-> mf, oob |-> oob]
       ELSE LET st == ParseEvents(buffer, trackEnd,
                          [position |-> start, runningStatus |-> 0,
                           track |-> NewMidiTrack, oob |-> oob], g)
            IN ParseTracks(buffer, st.position, i + 1,
                           [mf EXCEPT !.tracks = Append(@, st.track)], st.oob, g)

\* the parsing part of loadMidiFile, from the header check to the last track
ParseBuffer(buffer, g) ==
    IF Len(buffer) < 14
       \/ buffer[1] # 77 \/ buffer[2] # 84 \/ buffer[3] # 104 \/ buffer[4] # 100
    THEN [ok |-> FALSE, error |-> "Invalid MIDI file header",
          midiFile |-> NewMidiFile, oob |-> FALSE]
    ELSE ParseTracks(buffer, 14, 0,
             [format |-> read16BE(buffer, 8), numTracks |-> read16BE(buffer, 10),
              division |-> read16BE(buffer, 12), tracks |-> <<>>], FALSE, g)

(***************************************************************************)
(* SMF codec: the writer                                                   *)
(***************************************************************************)
WriteEvent(event) ==
    writeVariableLength(event.deltaTime) \o <<event.status>> \o
    (IF event.isMetaEvent
     THEN <<event.metaType>> \o writeVariableLength(Len(event.data)) \o event.data
     ELSE event.data)

WriteTrack(track) ==
    LET body == Concat([k \in DOMAIN track.events |-> WriteEvent(track.events[k])])
    IN <<77, 84, 114, 107>> \o write32BE(Len(body)) \o body

\* the buffer writeMidiFile builds and writes to the file
writeMidiFile(mf) ==
    <<77, 84, 104, 100>> \o write32BE(6) \o write16BE(mf.format)
    \o write16BE(mf.numTracks) \o write16BE(mf.division)
    \o Concat([k \in DOMAIN mf.tracks |-> WriteTrack(mf.tracks[k])])

(***************************************************************************)
(* Note aggregator                                                         *)
(***************************************************************************)
Note(p, st, d, v, c) ==
    [pitch |-> p, startTime |-> st, duration |-> d, velocity |-> v, channel |-> c]

\* closes the slot of noteNumber, if open: one Note, the slot erased
\* ag = [absoluteTime, activeNotes, notes]
CloseSlot(ag, noteNumber) ==
    IF noteNumber \in DOMAIN ag.activeNotes
    THEN LET slot == ag.activeNotes[noteNumber]
         IN [ag EXCEPT
               !.notes = Append(@, Note(noteNumber, slot.startTime,
                                        ag.absoluteTime - slot.startTime,
                                        slot.velocity, slot.channel)),
               !.activeNotes = [n \in DOMAIN ag.activeNotes \ {noteNumber}
                                  |-> ag.activeNotes[n]]]
    ELSE ag

\* the body of the loop over track.events
AggregateEvent(ag0, event) ==
    LET ag == [ag0 EXCEPT !.absoluteTime = @ + event.deltaTime]
        eventType == (event.status \div 16) * 16
        channel == event.status % 16
    IN IF event.isMetaEvent THEN ag
       ELSE IF eventType = NOTE_ON /\ Len(event.data) >= 2
       THEN IF event.data[2] > 0
            THEN [ag EXCEPT !.activeNotes =
                     [n \in DOMAIN ag.activeNotes \cup {event.data[1]} |->
                        IF n = event.data[1]
                        THEN [startTime |-> ag.absoluteTime,
                              velocity |-> event.data[2], channel |-> channel]
                        ELSE ag.activeNotes[n]]]
            ELSE CloseSlot(ag, event.data[1])
       ELSE IF eventType = NOTE_OFF /\ Len(event.data) >= 2
       THEN CloseSlot(ag, event.data[1])
       ELSE ag

\* x is bound to the value of the step, so each step is evaluated once
RECURSIVE AggregateEvents(_, _, _)
AggregateEvents(ag, events, k) ==
    IF k > Len(events) THEN ag
    ELSE CHOOSE r \in {AggregateEvents(x, events, k + 1) :
                          x \in {AggregateEvent(ag, events[k])}} : TRUE

\* an end of track that emits nothing for the notes still active
DropOpen(ag, open) == ag

\* the notes still active at the end of a track, each closed at the final tick.
\* The code walks an unordered_map, whose order is unspecified; the model
\* walks it by ascending note number (nothing downstream depends on it).
RECURSIVE ForceClose(_, _)
ForceClose(ag, open) ==
    IF open = {} THEN ag
    ELSE LET n == CHOOSE x \in open : \A y \in open : x <= y
             slot == ag.activeNotes[n]
         IN ForceClose([ag EXCEPT !.notes =
                           Append(@, Note(n, slot.startTime,
                                          ag.absoluteTime - slot.startTime,
                                          slot.velocity, slot.channel))],
                       open \ {n})

RECURSIVE AggregateTracks(_, _, _)
AggregateTracks(out, tracks, k) ==
    IF k > Len(tracks) THEN out
    ELSE LET ag == AggregateEvents(
                       [absoluteTime |-> 0, activeNotes |-> <<>>, notes |-> out],
                       tracks[k].events, 1)
         IN AggregateTracks(ForceClose(ag, DOMAIN ag.activeNotes).notes, tracks, k + 1)

\* std::sort by startTime; the order of notes with equal startTime is
\* unspecified in the code and is the emission order here
RECURSIVE InsertByStart(_, _)
InsertByStart(x, s) ==
    IF s = <<>> THEN <<x>>
    ELSE IF x.startTime < s[1].startTime THEN <<x>> \o s
    ELSE <<s[1]>> \o InsertByStart(x, Tail(s))

RECURSIVE SortByStart(_, _)
SortByStart(s, k) ==
    IF k = 0 THEN <<>> ELSE InsertByStart(s[k], SortByStart(s, k - 1))

extractNotes(mf) ==
    LET raw == AggregateTracks(<<>>, mf.tracks, 1)
    IN SortByStart(raw, Len(raw))

(***************************************************************************)
(* Chord namer                                                             *)
(***************************************************************************)
noteNames ==
    << <<"C">>, <<"C", "#">>, <<"D">>, <<"D", "#">>, <<"E">>, <<"F">>,
       <<"F", "#">>, <<"G">>, <<"G", "#">>, <<"A">>, <<"A", "#">>, <<"B">> >>

Q_maj == <<>>
Q_m == <<"m">>
Q_dim == <<"d", "i", "m">>
Q_aug == <<"a", "u", "g">>
Q_sus4 == <<"s", "u", "s", "4">>
Q_sus2 == <<"s", "u", "s", "2">>
Q_7 == <<"7">>
Q_maj7 == <<"m", "a", "j", "7">>
Q_m7 == <<"m", "7">>
Q_dim7 == <<"d", "i", "m", "7">>
Q_m7b5 == <<"m", "7", "b", "5">>
Q_aug7 == <<"a", "u", "g", "7">>
Q_7sus4 == <<"7", "s", "u", "s", "4">>
Q_9 == <<"9">>
Q_maj9 == <<"m", "a", "j", "9">>
Q_m9 == <<"m", "9">>
Q_6 == <<"6">>
Q_m6 == <<"m", "6">>
Q_add9 == <<"a", "d", "d", "9">>
Q_madd9 == <<"m", "a", "d", "d", "9">>

\* the static table of identifyChord (an unordered_map: its iteration order
\* is unspecified; the patterns are pairwise different)
chordTypes ==
    << [quality |-> Q_maj, pattern |-> <<0, 4, 7>>],
       [quality |-> Q_m, pattern |-> <<0, 3, 7>>],
       [quality |-> Q_dim, pattern |-> <<0, 3, 6>>],
       [quality |-> Q_aug, pattern |-> <<0, 4, 8>>],
       [quality |-> Q_sus4, pattern |-> <<0, 5, 7>>],
       [quality |-> Q_sus2, pattern |-> <<0, 2, 7>>],
       [quality |-> Q_7, pattern |-> <<0, 4, 7, 10>>],
       [quality |-> Q_maj7, pattern |-> <<0, 4, 7, 11>>],
       [quality |-> Q_m7, pattern |-> <<0, 3, 7, 10>>],
       [quality |-> Q_dim7, pattern |-> <<0, 3, 6, 9>>],
       [quality |-> Q_m7b5, pattern |-> <<0, 3, 6, 10>>],
       [quality |-> Q_aug7, pattern |-> <<0, 4, 8, 10>>],
       [quality |-> Q_7sus4, pattern |-> <<0, 5, 7, 10>>],
       [quality |-> Q_9, pattern |-> <<0, 4, 7, 10, 14>>],
       [quality |-> Q_maj9, pattern |-> <<0, 4, 7, 11, 14>>],
       [quality |-> Q_m9, pattern |-> <<0, 3, 7, 10, 14>>],
       [quality |-> Q_6, pattern |-> <<0, 4, 7, 9>>],
       [quality |-> Q_m6, pattern |-> <<0, 3, 7, 9>>],
       [quality |-> Q_add9, pattern |-> <<0, 4, 7, 14>>],
       [quality |-> Q_madd9, pattern |-> <<0, 3, 7, 14>>] >>

normalizeChord(ns) ==
    IF ns = <<>> THEN <<>>
    ELSE LET lowestNote == SeqMin(ns)
         IN SortAsc([k \in DOMAIN ns |-> ns[k] - lowestNote])

Digits == <<"0", "1", "2", "3", "4", "5", "6", "7", "8", "9">>

\* operator<< of an int
RECURSIVE NatToStr(_)
NatToStr(n) ==
    IF n < 10 THEN <<Digits[n + 1]>>
    ELSE NatToStr(n \div 10) \o <<Digits[(n % 10) + 1]>>

IntToStr(n) == IF n < 0 THEN <<"-">> \o NatToStr(-n) ELSE NatToStr(n)

RECURSIVE FormatFrom(_, _)
FormatFrom(ns, i) ==
    IF i > Len(ns) THEN <<>>
    ELSE noteNames[(ns[i] % 12) + 1] \o IntToStr((ns[i] \div 12) - 1)
         \o (IF i < Len(ns) THEN <<",", " ">> ELSE <<>>)
         \o FormatFrom(ns, i + 1)

formatNotes(ns) == FormatFrom(ns, 1)

\* pattern with its first `inversion` entries raised by 12, sorted
InvertedPattern(pattern, inversion) ==
    SortAsc([k \in DOMAIN pattern |->
               IF k <= inversion THEN pattern[k] + 12 ELSE pattern[k]])

identifyChord(ns) ==
    IF Len(ns) < 3 THEN <<"N", "/", "A">>
    ELSE
    LET intervals == normalizeChord(ns)
        rootNote == SeqMin(ns)
        rootName == noteNames[(rootNote % 12) + 1]
        exact == {t \in DOMAIN chordTypes : chordTypes[t].pattern = intervals}
        inverted == {t \in DOMAIN chordTypes :
                        /\ Len(chordTypes[t].pattern) = Len(intervals)
                        /\ \E inversion \in 1..(Len(chordTypes[t].pattern) - 1) :
                             InvertedPattern(chordTypes[t].pattern, inversion) = intervals}
    IN IF exact # {}
       THEN rootName \o chordTypes[CHOOSE t \in exact : \A u \in exact : t <= u].quality
       ELSE IF inverted # {}
       THEN rootName
            \o chordTypes[CHOOSE t \in inverted : \A u \in inverted : t <= u].quality
            \o <<"/">> \o noteNames[(ns[1] % 12) + 1]
       ELSE rootName \o <<" ", "(">> \o formatNotes(ns) \o <<")">>

(***************************************************************************)
(* Chord segmenter                                                         *)
(***************************************************************************)
NewChord(ns, nm, st, d) ==
    [notes |-> ns, name |-> nm, startTime |-> st, duration |-> d,
     isTransformed |-> FALSE, originalNotes |-> <<>>, originalName |-> <<>>]

\* first pass: each note goes to the first chord start time within the
\* tolerance, else opens a new one.  gr = [chordStartTimes, timeToNotes]
RECURSIVE GroupNotes(_, _, _, _)
GroupNotes(gr, ns, k, tol) ==
    IF k > Len(ns) THEN gr
    ELSE
    LET note == ns[k]
        hits == {j \in DOMAIN gr.chordStartTimes :
                    Abs(note.startTime - gr.chordStartTimes[j]) <= tol}
        startTime == IF hits # {}
                     THEN gr.chordStartTimes[CHOOSE j \in hits : \A h \in hits : j <= h]
                     ELSE note.startTime
        old == IF startTime \in DOMAIN gr.timeToNotes
               THEN gr.timeToNotes[startTime] ELSE <<>>
    IN GroupNotes(
         [chordStartTimes |-> IF hits # {} THEN gr.chordStartTimes
                              ELSE Append(gr.chordStartTimes, note.startTime),
          timeToNotes |-> [t \in DOMAIN gr.timeToNotes \cup {startTime} |->
                             IF t = startTime THEN Append(old, note.pitch)
                             ELSE gr.timeToNotes[t]]],
         ns, k + 1, tol)

\* the duration of the chord on the last start time: the longest duration
\* among all notes whose start lies within the tolerance of it
RECURSIVE MaxDuration(_, _, _, _)
MaxDuration(ns, k, startTime, tol) ==
    IF k > Len(ns) THEN 0
    ELSE IF Abs(ns[k].startTime - startTime) <= tol
    THEN Max2(ns[k].duration, MaxDuration(ns, k + 1, startTime, tol))
    ELSE MaxDuration(ns, k + 1, startTime, tol)

RECURSIVE BuildChords(_, _, _, _, _)
BuildChords(times, timeToNotes, i, ns, tol) ==
    IF i > Len(times) THEN <<>>
    ELSE
    LET startTime == times[i]
        chordNotes == Unique(SortAsc(timeToNotes[startTime]))
        duration == IF i < Len(times) THEN times[i + 1] - startTime
                    ELSE MaxDuration(ns, 1, startTime, tol)
        rest == BuildChords(times, timeToNotes, i + 1, ns, tol)
    IN IF Len(chordNotes) >= 3
       THEN <<NewChord(chordNotes, identifyChord(chordNotes), startTime, duration)>>
            \o rest
       ELSE rest

\* the chord values detectChords builds from the notes, in order
detectChords(ns, tol) ==
    IF ns = <<>> THEN <<>>
    ELSE LET gr == GroupNotes([chordStartTimes |-> <<>>, timeToNotes |-> <<>>],
                               ns, 1, tol)
         IN BuildChords(SortAsc(gr.chordStartTimes), gr.timeToNotes, 1, ns, tol)

(***************************************************************************)
(* utils: chord names                                                      *)
(***************************************************************************)
IsPrefix(pre, str) == Len(pre) <= Len(str) /\ SubSeq(str, 1, Len(pre)) = pre

\* 0-based index of the first '/' of str, -1 for npos
FindSlash(str) ==
    LET hits == {i \in DOMAIN str : str[i] = "/"}
    IN IF hits = {} THEN -1 ELSE (CHOOSE i \in hits : \A j \in hits : i <= j) - 1

\* the list utils::parseChordName walks, in its order
utilsNoteNames ==
    << <<"C">>, <<"C", "#">>, <<"D", "b">>, <<"D">>, <<"D", "#">>, <<"E", "b">>,
       <<"E">>, <<"F">>, <<"F", "#">>, <<"G", "b">>, <<"G">>, <<"G", "#">>,
       <<"A", "b">>, <<"A">>, <<"A", "#">>, <<"B", "b">>, <<"B">> >>

utils_parseChordName(chordName) ==
    LET hits == {i \in DOMAIN utilsNoteNames : IsPrefix(utilsNoteNames[i], chordName)}
        rootNote == IF hits = {} THEN <<"C">>
                    ELSE utilsNoteNames[CHOOSE i \in hits : \A j \in hits : i <= j]
        pos == IF hits = {} THEN 0 ELSE Len(rootNote)
        slashPos == FindSlash(chordName)
        quality == IF slashPos # -1
                   THEN SubSeq(chordName, pos + 1, slashPos)
                   ELSE SubSeq(chordName, pos + 1, Len(chordName))
    IN [rootNote |-> rootNote, quality |-> quality]

noteToIndex ==
    { <<<<"C">>, 0>>, <<<<"C", "#">>, 1>>, <<<<"D", "b">>, 1>>, <<<<"D">>, 2>>,
      <<<<"D", "#">>, 3>>, <<<<"E", "b">>, 3>>, <<<<"E">>, 4>>, <<<<"F">>, 5>>,
      <<<<"F", "#">>, 6>>, <<<<"G", "b">>, 6>>, <<<<"G">>, 7>>, <<<<"G", "#">>, 8>>,
      <<<<"A", "b">>, 8>>, <<<<"A">>, 9>>, <<<<"A", "#">>, 10>>, <<<<"B", "b">>, 10>>,
      <<<<"B">>, 11>> }

DigitValue(ch) == (CHOOSE d \in DOMAIN Digits : Digits[d] = ch) - 1
IsDigit(ch) == \E d \in DOMAIN Digits : Digits[d] = ch

noteNameToMidi(noteName) ==
    LET withOctave == Len(noteName) >= 2 /\ IsDigit(noteName[Len(noteName)])
        octave == IF withOctave THEN DigitValue(noteName[Len(noteName)]) ELSE 4
        note == IF withOctave THEN SubSeq(noteName, 1, Len(noteName) - 1) ELSE noteName
        hits == {e \in noteToIndex : e[1] = note}
    IN IF hits = {} THEN 60
       ELSE ((octave + 1) * 12 + (CHOOSE e \in hits : TRUE)[2]) % 256

\* the quality chain of getChordNotesFromName (the non-ASCII alias of m7b5
\* is not part of the model's alphabet)
QualityIntervals(quality) ==
    IF quality = Q_maj THEN <<0, 4, 7>>
    ELSE IF quality = Q_m THEN <<0, 3, 7>>
    ELSE IF quality = Q_7 THEN <<0, 4, 7, 10>>
    ELSE IF quality = Q_maj7 THEN <<0, 4, 7, 11>>
    ELSE IF quality = Q_m7 THEN <<0, 3, 7, 10>>
    ELSE IF quality = Q_dim7 THEN <<0, 3, 6, 9>>
    ELSE IF quality = Q_m7b5 THEN <<0, 3, 6, 10>>
    ELSE IF quality = Q_9 THEN <<0, 4, 7, 10, 14>>
    ELSE IF quality = Q_maj9 THEN <<0, 4, 7, 11, 14>>
    ELSE IF quality = Q_m9 THEN <<0, 3, 7, 10, 14>>
    ELSE IF quality = Q_6 THEN <<0, 4, 7, 9>>
    ELSE IF quality = Q_m6 THEN <<0, 3, 7, 9>>
    ELSE IF quality = Q_sus4 THEN <<0, 5, 7>>
    ELSE IF quality = Q_sus2 THEN <<0, 2, 7>>
    ELSE IF quality = Q_7sus4 THEN <<0, 5, 7, 10>>
    ELSE IF quality = Q_aug THEN <<0, 4, 8>>
    ELSE IF quality = Q_dim THEN <<0, 3, 6>>
    ELSE IF quality = Q_add9 THEN <<0, 4, 7, 14>>
    ELSE IF quality = Q_madd9 THEN <<0, 3, 7, 14>>
    ELSE <<0, 4, 7>>

\* keeps the notes that pass the test note <= 127
RECURSIVE KeepInRange(_)
KeepInRange(s) ==
    IF s = <<>> THEN <<>>
    ELSE (IF s[1] <= 127 THEN <<s[1]>> ELSE <<>>) \o KeepInRange(Tail(s))

getChordNotesFromName(chordName, baseOctave) ==
    LET parsed == utils_parseChordName(chordName)
        rootMidiNote == ((noteNameToMidi(parsed.rootNote) % 12) + baseOctave * 12) % 256
        intervals == QualityIntervals(parsed.quality)
        ns == KeepInRange([k \in DOMAIN intervals |-> (rootMidiNote + intervals[k]) % 256])
        slashPos == FindSlash(chordName)
    IN IF slashPos # -1 /\ slashPos + 1 < Len(chordName)
       THEN LET bassNoteName == SubSeq(chordName, slashPos + 2, Len(chordName))
                bassNote == ((noteNameToMidi(bassNoteName) % 12)
                             + (baseOctave - 1) * 12) % 256
            IN IF bassNote \in Range(ns) THEN ns ELSE <<bassNote>> \o ns
       ELSE ns

(***************************************************************************)
(* Voice-leading engine                                                    *)
(***************************************************************************)
\* VoiceLeadingOptions(), the options the MidiProcessor constructor installs
DefaultVoiceLeadingOptions ==
    [minimizeMovement |-> TRUE, avoidParallels |-> TRUE,
     maintainVoiceCount |-> TRUE, maxVoiceMovement |-> 7]

\* a test for parallel octaves alone: fifths are let through
hasParallelOctaves(originalNotes, newNotes) ==
    /\ Len(originalNotes) >= 2
    /\ Len(newNotes) >= 2
    /\ \E i \in DOMAIN originalNotes : \E j \in DOMAIN originalNotes :
          /\ i < j
          /\ LET newI == IF i <= Len(newNotes) THEN i ELSE 1
                 newJ == IF j <= Len(newNotes) THEN j ELSE Len(newNotes)
             IN /\ Abs(originalNotes[i] - originalNotes[j]) % 12 = 0
                /\ Abs(newNotes[newI] - newNotes[newJ]) % 12 = 0
                /\ originalNotes[i] # newNotes[newI]
                /\ originalNotes[j] # newNotes[newJ]
                /\ (newNotes[newI] > originalNotes[i]) = (newNotes[newJ] > originalNotes[j])

hasParallelFifthsOrOctaves(originalNotes, newNotes) ==
    IF Len(originalNotes) < 2 \/ Len(newNotes) < 2 THEN FALSE
    ELSE \E i \in DOMAIN originalNotes : \E j \in DOMAIN originalNotes :
           /\ i < j
           /\ LET originalInterval == Abs(originalNotes[i] - originalNotes[j]) % 12
                  newI == IF i <= Len(newNotes) THEN i ELSE 1
                  newJ == IF j <= Len(newNotes) THEN j ELSE Len(newNotes)
                  newInterval == Abs(newNotes[newI] - newNotes[newJ]) % 12
              IN /\ originalInterval \in {7, 0}
                 /\ newInterval = originalInterval
                 /\ originalNotes[i] # newNotes[newI]
                 /\ originalNotes[j] # newNotes[newJ]
                 /\ (newNotes[newI] > originalNotes[i]) = (newNotes[newJ] > originalNotes[j])

\* distance from origNote to the closest of newNotes
MinDistance(origNote, newNotes) ==
    SeqMin([k \in DOMAIN newNotes |-> Abs(newNotes[k] - origNote)])

RECURSIVE SumCost(_, _, _, _)
SumCost(originalNotes, newNotes, k, opts) ==
    IF k > Len(originalNotes) THEN 0
    ELSE LET movement == MinDistance(originalNotes[k], newNotes)
         IN (IF movement > opts.maxVoiceMovement
             THEN (movement - opts.maxVoiceMovement) * 10 ELSE 0)
            + movement + SumCost(originalNotes, newNotes, k + 1, opts)

calculateMovementCost(originalNotes, newNotes, opts) ==
    LET base == (IF opts.maintainVoiceCount /\ Len(originalNotes) # Len(newNotes)
                 THEN 1000 ELSE 0)
                + SumCost(originalNotes, newNotes, 1, opts)
    IN IF opts.minimizeMovement THEN base * 2 ELSE base

\* generateVoicings: every assignment of an octave of the window to each
\* target pitch class, in the order the recursion pushes them
RECURSIVE generateVoicings(_, _, _, _, _)
generateVoicings(pcs, currentVoicing, index, minOctave, maxOctave) ==
    IF index > Len(pcs) THEN <<currentVoicing>>
    ELSE Concat([o \in 1..(maxOctave - minOctave + 1) |->
            LET pitch == pcs[index] + (minOctave + o - 1) * 12
            IN IF pitch <= 127
               THEN generateVoicings(pcs, Append(currentVoicing, pitch), index + 1,
                                     minOctave, maxOctave)
               ELSE <<>>])

\* a selection loop without the cost comparison: the first voicing the
\* filter lets through
FirstPair(S) ==
    CHOOSE p \in S : \A q \in S : p[2] <= q[2]

\* the selection loop: the first voicing, in enumeration order, of least cost
\* among those the parallel filter lets through, as the pair <<cost, index>>
\* that is least in the order "smaller cost, then smaller index"
LeastPair(S) ==
    CHOOSE p \in S : \A q \in S : p[1] < q[1] \/ (p[1] = q[1] /\ p[2] <= q[2])

CostPairs(possibleVoicings, originalNotes, opts) ==
    {<<calculateMovementCost(originalNotes, possibleVoicings[k], opts), k>> :
        k \in {j \in DOMAIN possibleVoicings :
                 ~(opts.avoidParallels
                   /\ hasParallelFifthsOrOctaves(originalNotes, possibleVoicings[j]))}}

BestOf(S, possibleVoicings) ==
    IF S = {} THEN <<>> ELSE possibleVoicings[LeastPair(S)[2]]

SelectVoicing(possibleVoicings, originalNotes, opts) ==
    BestOf(CostPairs(possibleVoicings, originalNotes, opts), possibleVoicings)

\* the two fallbacks after the selection loop
PickVoicing(bestVoicing, possibleVoicings, normalizedTargetPitches) ==
    IF bestVoicing # <<>> THEN bestVoicing
    ELSE IF possibleVoicings # <<>> /\ possibleVoicings[1] # <<>>
    THEN possibleVoicings[1]
    ELSE [k \in DOMAIN normalizedTargetPitches |-> normalizedTargetPitches[k] + 60]

SelectFrom(possibleVoicings, normalizedTargetPitches, originalNotes, opts) ==
    PickVoicing(SelectVoicing(possibleVoicings, originalNotes, opts),
                possibleVoicings, normalizedTargetPitches)

PitchClasses(targetPitches) == [k \in DOMAIN targetPitches |-> targetPitches[k] % 12]
MinOctave(originalNotes) == Max2(0, (SeqMin(originalNotes) \div 12) - 1)
MaxOctave(originalNotes) == Min2(10, (SeqMax(originalNotes) \div 12) + 1)

findOptimalVoicing(targetPitches, originalNotes, opts) ==
    SelectFrom(generateVoicings(PitchClasses(targetPitches), <<>>, 1,
                                MinOctave(originalNotes), MaxOctave(originalNotes)),
               PitchClasses(targetPitches), originalNotes, opts)

STANDARD == "STANDARD"
INVERSION == "INVERSION"
PERCENTAGE == "PERCENTAGE"
SWITCH_TONALITY == "SWITCH_TONALITY"

\* TransformationOptions(): the defaults of the record
DefaultTransformationOptions ==
    [type |-> STANDARD, inversion |-> 0, percentage |-> 100, useVoiceLeading |-> TRUE]

\* the target chord left in the octave getChordNotesFromName built it in
Unshifted(targetNotes, originalNotes) == targetNotes

\* the target chord moved by whole octaves next to the lowest original note
OctaveShifted(targetNotes, originalNotes) ==
    LET octaveShift == (SeqMin(originalNotes) \div 12) - (SeqMin(targetNotes) \div 12)
    IN [k \in DOMAIN targetNotes |-> (targetNotes[k] + octaveShift * 12) % 256]

\* the closest element of candidates to x, the first one on a tie
Closest(x, candidates) ==
    LET d == MinDistance(x, candidates)
        hits == {k \in DOMAIN candidates : Abs(candidates[k] - x) = d}
    IN candidates[CHOOSE k \in hits : \A h \in hits : k <= h]

\* the second loop of the PERCENTAGE pairing: every target note that is the
\* second component of no pair yet is paired with its closest original note
RECURSIVE RemainingPairs(_, _, _, _)
RemainingPairs(notePairs, target, k, originalNotes) ==
    IF k > Len(target) THEN notePairs
    ELSE IF \E q \in DOMAIN notePairs : notePairs[q][2] = target[k]
    THEN RemainingPairs(notePairs, target, k + 1, originalNotes)
    ELSE RemainingPairs(Append(notePairs, <<Closest(target[k], originalNotes), target[k]>>),
                        target, k + 1, originalNotes)

\* the note pairs of the PERCENTAGE branch
NotePairs(originalNotes, target) ==
    IF Len(originalNotes) = Len(target)
    THEN [k \in DOMAIN originalNotes |-> <<originalNotes[k], target[k]>>]
    ELSE RemainingPairs([k \in DOMAIN originalNotes |->
                            <<originalNotes[k], Closest(originalNotes[k], target)>>],
                        target, 1, originalNotes)

\* static_cast<int>(x) of the quotient num / den: truncation toward zero
TruncDiv(num, den) == IF num >= 0 THEN num \div den ELSE -((-num) \div den)

\* VoiceLeadingEngine::transformChord.  percentage is a whole number whose
\* hundredth is exact in binary (0, 25, 50, 75, 100), so the double product
\* is the exact quotient
VLE_transformChord(originalNotes, targetChordName, transformOptions, opts) ==
    LET targetChordNotes == getChordNotesFromName(targetChordName, 4)
    IN CASE transformOptions.type = STANDARD ->
              IF transformOptions.useVoiceLeading
              THEN findOptimalVoicing(targetChordNotes, originalNotes, opts)
              ELSE OctaveShifted(targetChordNotes, originalNotes)
         [] transformOptions.type = INVERSION ->
              LET baseChord == SortAsc(targetChordNotes)
                  inversion == IF transformOptions.inversion < 0 THEN 0
                               ELSE IF transformOptions.inversion >= Len(baseChord)
                               THEN Len(baseChord) - 1
                               ELSE transformOptions.inversion
                  invertedChord == SortAsc([k \in DOMAIN baseChord |->
                                      IF k <= inversion THEN (baseChord[k] + 12) % 256
                                      ELSE baseChord[k]])
              IN IF transformOptions.useVoiceLeading
                 THEN findOptimalVoicing(invertedChord, originalNotes, opts)
                 ELSE OctaveShifted(invertedChord, originalNotes)
         [] transformOptions.type = PERCENTAGE ->
              LET percentage == Max2(0, Min2(100, transformOptions.percentage))
                  targetWithVoiceLeading ==
                      findOptimalVoicing(targetChordNotes, originalNotes, opts)
                  notePairs == NotePairs(originalNotes, targetWithVoiceLeading)
              IN [k \in DOMAIN notePairs |->
                    (notePairs[k][1]
                     + TruncDiv((notePairs[k][2] - notePairs[k][1]) * percentage, 100))
                    % 256]
         [] OTHER -> findOptimalVoicing(targetChordNotes, originalNotes, opts)

(***************************************************************************)
(* The files on disk.  They are inputs of the program and do not change.   *)
(***************************************************************************)
MThd(format, numTracks, division) ==
    <<77, 84, 104, 100, 0, 0, 0, 6>> \o <<0, format, 0, numTracks>>
    \o <<division \div 256, division % 256>>

MTrk(body) == <<77, 84, 114, 107, 0, 0, 0, Len(body)>> \o body

EndOfTrack == <<0, 255, 47, 0>>

\* a.mid: format 0, division 480, one track named "A" with the chords
\* C (tick 0), Am (ticks 480 and 490) and G7 (tick 960); running status and
\* note-on with velocity 0 are used
FileA ==
    MThd(0, 1, 480) \o MTrk(
        <<0, 255, 3, 1, 65>>
        \o <<0, 144, 60, 64,  0, 64, 64,  0, 67, 64>>
        \o <<131, 96, 128, 60, 0,  0, 64, 0,  0, 67, 0>>
        \o <<0, 144, 57, 64,  0, 60, 64,  10, 64, 64>>
        \o <<131, 86, 128, 57, 0,  0, 60, 0,  0, 64, 0>>
        \o <<0, 144, 55, 64,  0, 59, 64,  0, 62, 64,  0, 65, 64>>
        \o <<131, 96, 55, 0,  0, 59, 0,  0, 62, 0,  0, 65, 0>>
        \o EndOfTrack)

\* b.mid: format 1, division 480, a tempo track and a track with the chords
\* Dm (tick 0) and F (tick 480) on channel 1
FileB ==
    MThd(1, 2, 480)
    \o MTrk(<<0, 255, 81, 3, 7, 161, 32>> \o EndOfTrack)
    \o MTrk(
        <<0, 145, 62, 80,  0, 65, 80,  0, 69, 80>>
        \o <<131, 96, 129, 62, 0,  0, 65, 0,  0, 69, 0>>
        \o <<0, 145, 65, 80,  0, 69, 80,  0, 72, 80>>
        \o <<131, 96, 129, 65, 0,  0, 69, 0,  0, 72, 0>>
        \o EndOfTrack)

\* the first four bytes are not "MThd"
FileBadHeader == <<77, 84, 104, 120, 0, 0, 0, 6, 0, 0, 0, 1, 0, 96>> \o MTrk(EndOfTrack)

\* the second chunk of two is not "MTrk"
FileBadTrack ==
    MThd(1, 2, 96) \o MTrk(<<0, 255, 3, 1, 88>> \o EndOfTrack)
    \o <<77, 84, 114, 120, 0, 0, 0, 4>> \o EndOfTrack

\* the track declares 64 bytes, the file holds 4
FileLongTrack == MThd(0, 1, 96) \o <<77, 84, 114, 107, 0, 0, 0, 64>> \o EndOfTrack

FileSystem ==
    [name \in {"a.mid", "b.mid", "bad_header.mid", "bad_track.mid", "long_track.mid"} |->
        CASE name = "a.mid" -> FileA
          [] name = "b.mid" -> FileB
          [] name = "bad_header.mid" -> FileBadHeader
          [] name = "bad_track.mid" -> FileBadTrack
          [] OTHER -> FileLongTrack]

(***************************************************************************)
(* File hash: size_t hash = hash * 31 + c over the bytes, as four 16-bit   *)
(* limbs, least significant first; c is a (signed) char widened to size_t. *)
(* The 16-digit hex string the code makes of it is one-to-one with it.     *)
(***************************************************************************)
CharLimbs(byte) ==
    IF byte < 128 THEN <<byte, 0, 0, 0>> ELSE <<65280 + byte, 65535, 65535, 65535>>

HashStep(h, byte) ==
    LET a == CharLimbs(byte)
        t1 == h[1] * 31 + a[1]
        t2 == h[2] * 31 + a[2] + (t1 \div 65536)
        t3 == h[3] * 31 + a[3] + (t2 \div 65536)
        t4 == h[4] * 31 + a[4] + (t3 \div 65536)
    IN <<t1 % 65536, t2 % 65536, t3 % 65536, t4 % 65536>>

\* the loop over content[lo..hi], left to right, started with h; the range is
\* walked in two halves and x is bound to the value the first half ends with
RECURSIVE HashRange(_, _, _, _)
HashRange(content, lo, hi, h) ==
    IF lo > hi THEN h
    ELSE IF lo = hi THEN HashStep(h, content[lo])
    ELSE CHOOSE r \in {HashRange(content, ((lo + hi) \div 2) + 1, hi, x) :
                          x \in {HashRange(content, lo, (lo + hi) \div 2, h)}} : TRUE

calculateFileHash(content) == HashRange(content, 1, Len(content), <<0, 0, 0, 0>>)

(***************************************************************************)
(* Bounds of the model                                                     *)
(***************************************************************************)
\* number of API calls in one run
MaxCalls == 4

(***************************************************************************)
(* The document: state after construction                                  *)
(***************************************************************************)
maxHistorySize == 50

\* the chord list as values: what getChords() shows the host
ValuesOf(hp, chs) == [k \in DOMAIN chs |-> hp[chs[k]]]
ChordValues == ValuesOf(heap, chords)

Call(op, arg, result) == [op |-> op, arg |-> arg, result |-> result]
Crashed == lastCall.result = "crash"

Init ==
    /\ midiFile = NewMidiFile
    /\ notes = <<>>
    /\ chords = <<>>
    /\ heap = <<>>
    /\ timeTolerance = 120
    /\ currentFilename = ""
    /\ detectionCache = <<>>
    /\ history = [actions |-> <<>>, currentPosition |-> 0]
    /\ outFile = <<>>
    /\ lastCall = Call("new", <<>>, "void")
    /\ nCalls = 0
    /\ born = <<>>
    /\ expect = (0 :> <<>>)
    /\ firstLoad = <<>>
    /\ codec = <<>>
    /\ lab = <<>>
    /\ ub = FALSE

\* a call that ends the process: nothing of the document survives it
Crash(op, arg) ==
    /\ lastCall' = Call(op, arg, "crash")
    /\ nCalls' = nCalls + 1
    /\ UNCHANGED <<midiFile, notes, chords, heap, timeTolerance, currentFilename,
                   detectionCache, history, outFile, born, expect, firstLoad, codec, lab, ub>>

(***************************************************************************)
(* loadMidiFile                                                            *)
(***************************************************************************)
\* the file cannot be opened
LoadMissing(filename) ==
    /\ lastCall' = Call("load", filename, "false")
    /\ nCalls' = nCalls + 1
    /\ UNCHANGED <<midiFile, notes, chords, heap, timeTolerance, currentFilename,
                   detectionCache, history, outFile, born, expect, firstLoad, codec, lab, ub>>

\* cache hit: the chord pointers of the cache entry are copied
LoadCached(filename, fileHash) ==
    /\ chords' = detectionCache[fileHash]
    /\ currentFilename' = filename
    /\ lastCall' = Call("load", filename, "true")
    /\ nCalls' = nCalls + 1
    /\ expect' = (history.currentPosition :> ValuesOf(heap, detectionCache[fileHash]))
    /\ firstLoad' = IF filename \in DOMAIN firstLoad THEN firstLoad
                    ELSE firstLoad @@ (filename :> ValuesOf(heap, detectionCache[fileHash]))
    /\ UNCHANGED <<midiFile, notes, heap, timeTolerance, detectionCache, history,
                   outFile, born, codec, lab, ub>>

\* the parse failed after the reset of the document
LoadFailed(filename, mf, oob) ==
    /\ midiFile' = mf
    /\ notes' = <<>>
    /\ chords' = <<>>
    /\ currentFilename' = filename
    /\ lastCall' = Call("load", filename, "false")
    /\ nCalls' = nCalls + 1
    /\ expect' = (history.currentPosition :> <<>>)
    /\ ub' = (ub \/ oob)
    /\ UNCHANGED <<heap, timeTolerance, detectionCache, history, outFile, born,
                   firstLoad, codec, lab>>

\* the parse succeeded: cs are the chords detectChords made; each is a new
\* object, and the cache entry gets the same pointers as the chord list
LoadStore(filename, fileHash, mf, ns, cs, oob) ==
    /\ midiFile' = mf
    /\ notes' = ns
    /\ heap' = heap \o cs
    /\ chords' = [k \in DOMAIN cs |-> Len(heap) + k]
    /\ currentFilename' = filename
    /\ detectionCache' = [h \in DOMAIN detectionCache \cup {fileHash} |->
                            IF h = fileHash THEN chords' ELSE detectionCache[h]]
    /\ lastCall' = Call("load", filename, "true")
    /\ nCalls' = nCalls + 1
    /\ born' = born \o [k \in DOMAIN cs |-> [notes |-> cs[k].notes, name |-> cs[k].name]]
    /\ expect' = (history.currentPosition :> cs)
    /\ firstLoad' = IF filename \in DOMAIN firstLoad THEN firstLoad
                    ELSE firstLoad @@ (filename :> cs)
    /\ ub' = (ub \/ oob)
    /\ UNCHANGED <<timeTolerance, history, outFile, codec, lab>>

LoadDetect(filename, fileHash, mf, ns, oob) ==
    LoadStore(filename, fileHash, mf, ns, detectChords(ns, timeTolerance), oob)

LoadParsed(filename, fileHash, res) ==
    \/ /\ res.oob
       /\ Crash("load", filename)
    \/ IF res.ok
       THEN LoadDetect(filename, fileHash, res.midiFile, extractNotes(res.midiFile),
                       res.oob)
       ELSE LoadFailed(filename, res.midiFile, res.oob)

LoadOpened(filename, fileHash, g) ==
    IF fileHash \in DOMAIN detectionCache
    THEN LoadCached(filename, fileHash)
    ELSE LoadParsed(filename, fileHash, ParseBuffer(FileSystem[filename], g))

\* g: the byte a read past the end of the buffer yields
loadMidiFile(filename, g) ==
    IF filename \notin DOMAIN FileSystem
    THEN LoadMissing(filename)
    ELSE LoadOpened(filename, calculateFileHash(FileSystem[filename]), g)

(***************************************************************************)
(* writeMidiFile, setTimeTolerance                                         *)
(***************************************************************************)
Save ==
    /\ outFile' = writeMidiFile(midiFile)
    /\ lastCall' = Call("save", <<>>, "true")
    /\ nCalls' = nCalls + 1
    /\ UNCHANGED <<midiFile, notes, chords, heap, timeTolerance, currentFilename,
                   detectionCache, history, born, expect, firstLoad, codec, lab, ub>>

setTimeTolerance(tolerance) ==
    /\ timeTolerance' = tolerance
    /\ lastCall' = Call("set_time_tolerance", tolerance, "void")
    /\ nCalls' = nCalls + 1
    /\ UNCHANGED <<midiFile, notes, chords, heap, currentFilename, detectionCache,
                   history, outFile, born, expect, firstLoad, codec, lab, ub>>

(***************************************************************************)
(* The journal                                                             *)
(***************************************************************************)
\* a record that keeps the actions beyond the cursor
recordWithoutTruncation(h, indices, before, after, description) ==
    LET action == [affectedChordIndices |-> indices, previousState |-> before,
                   newState |-> after, description |-> description]
        pushed == Append(h.actions, action)
    IN IF Len(pushed) > maxHistorySize
       THEN [actions |-> Tail(pushed), currentPosition |-> h.currentPosition]
       ELSE [actions |-> pushed, currentPosition |-> h.currentPosition + 1]

recordTransformation(h, indices, before, after, description) ==
    LET action == [affectedChordIndices |-> indices, previousState |-> before,
                   newState |-> after, description |-> description]
        kept == IF h.currentPosition < Len(h.actions)
                THEN SubSeq(h.actions, 1, h.currentPosition) ELSE h.actions
        pushed == Append(kept, action)
    IN IF Len(pushed) > maxHistorySize
       THEN [actions |-> Tail(pushed), currentPosition |-> h.currentPosition]
       ELSE [actions |-> pushed, currentPosition |-> h.currentPosition + 1]

canUndo == history.currentPosition > 0
canRedo == history.currentPosition < Len(history.actions)

\* the chord values the undo/redo law expects at each journal position: an
\* edit on valid chord indices at position p drops the expectations beyond p
\* and adds its own result; the law says nothing about an edit that names an
\* index out of range, and no expectation is kept across it
ExpectAfterEdit(hp, h, allValid) ==
    IF h = history THEN expect
    ELSE IF ~allValid THEN [p \in {} |-> <<>>]
    ELSE [p \in {q \in DOMAIN expect : q <= history.currentPosition}
                \cup {h.currentPosition} |->
            IF p = h.currentPosition THEN ValuesOf(hp, chords) ELSE expect[p]]

\* *chords[index] = newChordData
updateChord(hp, index, newChordData) ==
    IF index >= Len(chords) THEN hp
    ELSE [hp EXCEPT ![chords[index + 1]] = newChordData]

\* what a read of states[i] past the end of the vector may yield as a Chord
JunkChords ==
    {[notes |-> <<0>>, name |-> <<"?">>, startTime |-> 0, duration |-> 0,
      isTransformed |-> t, originalNotes |-> <<>>, originalName |-> <<>>] :
        t \in BOOLEAN}

\* the loop of undo and of redo reads states[i] for an index that passed the
\* guard although the vector has no element i
ReadsPastEnd(indices, states) ==
    \E i \in DOMAIN indices :
        indices[i] >= 0 /\ indices[i] < Len(states) /\ i > Len(states)

\* the loop of undo (states = previousState) and of redo (states = newState)
RECURSIVE ApplyStates(_, _, _, _, _)
ApplyStates(hp, indices, states, i, junk) ==
    IF i > Len(indices) THEN hp
    ELSE IF indices[i] >= 0 /\ indices[i] < Len(states)
    THEN ApplyStates(updateChord(hp, indices[i],
                                 IF i <= Len(states) THEN states[i] ELSE junk),
                     indices, states, i + 1, junk)
    ELSE ApplyStates(hp, indices, states, i + 1, junk)

Refused(op) ==
    /\ lastCall' = Call(op, <<>>, "false")
    /\ nCalls' = nCalls + 1
    /\ UNCHANGED <<midiFile, notes, chords, heap, timeTolerance, currentFilename,
                   detectionCache, history, outFile, born, expect, firstLoad, codec, lab, ub>>

Replayed(op, position, indices, states) ==
    \/ /\ ReadsPastEnd(indices, states)
       /\ Crash(op, <<>>)
    \/ \E junk \in JunkChords :
        /\ heap' = ApplyStates(heap, indices, states, 1, junk)
        /\ history' = [history EXCEPT !.currentPosition = position]
        /\ lastCall' = Call(op, <<>>, "true")
        /\ nCalls' = nCalls + 1
        /\ ub' = (ub \/ ReadsPastEnd(indices, states))
        /\ UNCHANGED <<midiFile, notes, chords, timeTolerance, currentFilename,
                       detectionCache, outFile, born, expect, firstLoad, codec, lab>>

undo ==
    IF ~canUndo THEN Refused("undo")
    ELSE Replayed("undo", history.currentPosition - 1,
                  history.actions[history.currentPosition].affectedChordIndices,
                  history.actions[history.currentPosition].previousState)

redo ==
    IF ~canRedo THEN Refused("redo")
    ELSE Replayed("redo", history.currentPosition + 1,
                  history.actions[history.currentPosition + 1].affectedChordIndices,
                  history.actions[history.currentPosition + 1].newState)

(***************************************************************************)
(* transformSelectedChords, switchTonality                                 *)
(***************************************************************************)
\* MidiProcessor::transformChord
transformChord(ns, targetChordName, options) ==
    VLE_transformChord(ns, targetChordName, options, DefaultVoiceLeadingOptions)

\* the in-place update of one chord: the shadow is taken on the first
\* transform only
MutateChord(chord, newNotes, targetChordName) ==
    [(IF chord.isTransformed THEN chord
      ELSE [chord EXCEPT !.originalNotes = chord.notes, !.originalName = chord.name])
     EXCEPT !.notes = newNotes, !.name = targetChordName, !.isTransformed = TRUE]

StoreTransformed(st, addr, chord) ==
    [heap |-> [st.heap EXCEPT ![addr] = chord],
     originalChords |-> Append(st.originalChords, st.heap[addr]),
     transformedChords |-> Append(st.transformedChords, chord)]

TransformStep(st, addr, targetChordName, options) ==
    StoreTransformed(st, addr,
        MutateChord(st.heap[addr],
                    transformChord(st.heap[addr].notes, targetChordName, options),
                    targetChordName))

RECURSIVE TransformLoop(_, _, _, _, _)
TransformLoop(st, i, selectedIndices, targetChordNames, options) ==
    IF i > Len(selectedIndices) THEN st
    ELSE IF selectedIndices[i] < 0 \/ selectedIndices[i] >= Len(chords)
    THEN TransformLoop(st, i + 1, selectedIndices, targetChordNames, options)
    ELSE TransformLoop(TransformStep(st, chords[selectedIndices[i] + 1],
                                     targetChordNames[i], options[i]),
                       i + 1, selectedIndices, targetChordNames, options)

Recorded(op, arg, hp, h, allValid) ==
    /\ heap' = hp
    /\ history' = h
    /\ lastCall' = Call(op, arg, "void")
    /\ nCalls' = nCalls + 1
    /\ expect' = ExpectAfterEdit(hp, h, allValid)
    /\ UNCHANGED <<midiFile, notes, chords, timeTolerance, currentFilename,
                   detectionCache, outFile, born, firstLoad, codec, lab, ub>>

TransformDone(selectedIndices, st) ==
    Recorded("transform", selectedIndices, st.heap,
             IF st.originalChords # <<>>
             THEN recordTransformation(history, selectedIndices, st.originalChords,
                                       st.transformedChords,
                                       <<"Transform", Len(selectedIndices), "chords">>)
             ELSE history,
             \A i \in DOMAIN selectedIndices :
                selectedIndices[i] >= 0 /\ selectedIndices[i] < Len(chords))

transformSelectedChords(selectedIndices, targetChordNames, options) ==
    TransformDone(selectedIndices,
                  TransformLoop([heap |-> heap, originalChords |-> <<>>,
                                 transformedChords |-> <<>>],
                                1, selectedIndices, targetChordNames, options))

tonalitySwitch ==
    { <<Q_maj, Q_m>>, <<Q_m, Q_maj>>, <<Q_dim, Q_m>>, <<Q_aug, Q_maj>>,
      <<Q_7, Q_m7>>, <<Q_maj7, Q_m7>>, <<Q_m7, Q_maj7>>, <<Q_dim7, Q_m7b5>>,
      <<Q_m7b5, Q_dim7>>, <<Q_9, Q_m9>>, <<Q_maj9, Q_m9>>, <<Q_m9, Q_maj9>>,
      <<Q_6, Q_m6>>, <<Q_m6, Q_6>>, <<Q_add9, Q_madd9>>, <<Q_madd9, Q_add9>> }

\* MidiProcessor::parseChordName; the name has at least one character
MP_parseChordName(chordName) ==
    LET n == IF Len(chordName) > 1 /\ chordName[2] \in {"#", "b"} THEN 2 ELSE 1
    IN [rootNote |-> SubSeq(chordName, 1, n),
        quality |-> SubSeq(chordName, n + 1, Len(chordName))]

SwitchOptions == [DefaultTransformationOptions EXCEPT !.type = SWITCH_TONALITY]

SwitchDone(chordIndex, addr, before, after) ==
    Recorded("switch_tonality", chordIndex, [heap EXCEPT ![addr] = after],
             recordTransformation(history, <<chordIndex>>, <<before>>, <<after>>,
                                  <<"Switch tonality of chord", chordIndex>>),
             TRUE)

SwitchTo(chordIndex, addr, targetChordName) ==
    SwitchDone(chordIndex, addr, heap[addr],
               MutateChord(heap[addr],
                           transformChord(heap[addr].notes, targetChordName,
                                          SwitchOptions),
                           targetChordName))

SwitchParsed(chordIndex, addr, parsed) ==
    IF \E e \in tonalitySwitch : e[1] = parsed.quality
    THEN SwitchTo(chordIndex, addr,
                  parsed.rootNote
                  \o (CHOOSE e \in tonalitySwitch : e[1] = parsed.quality)[2])
    ELSE Recorded("switch_tonality", chordIndex, heap, history, TRUE)

switchTonality(chordIndex) ==
    IF chordIndex >= Len(chords)
    THEN Recorded("switch_tonality", chordIndex, heap, history, TRUE)
    ELSE IF heap[chords[chordIndex + 1]].name = <<>>
    THEN Crash("switch_tonality", chordIndex)
    ELSE SwitchParsed(chordIndex, chords[chordIndex + 1],
                      MP_parseChordName(heap[chords[chordIndex + 1]].name))

(***************************************************************************)
(* The calls the host makes                                                *)
(***************************************************************************)
FileNames == DOMAIN FileSystem \cup {"missing.mid"}
GarbageBytes == {0, 255}
Tolerances == {0}

N_F == <<"F">>
N_Am == <<"A", "m">>
N_Dm7 == <<"D", "m", "7">>
N_C == <<"C">>

TransformInputs ==
    { [indices |-> <<1>>, names |-> <<N_F>>,
       options |-> <<DefaultTransformationOptions>>],
      [indices |-> <<0, 1>>, names |-> <<N_Am, N_Dm7>>,
       options |-> <<[DefaultTransformationOptions EXCEPT
                        !.type = INVERSION, !.inversion = 1, !.useVoiceLeading = FALSE],
                     [DefaultTransformationOptions EXCEPT
                        !.type = PERCENTAGE, !.percentage = 50]>>],
      [indices |-> <<-1, 0, 2>>, names |-> <<N_C, N_Am, N_F>>,
       options |-> <<DefaultTransformationOptions, DefaultTransformationOptions,
                     SwitchOptions>>] }

Ready == ~Crashed /\ nCalls < MaxCalls

Load == Ready /\ \E f \in FileNames, g \in GarbageBytes : loadMidiFile(f, g)
SaveFile == Ready /\ Save
Transform ==
    Ready /\ \E in \in TransformInputs :
                transformSelectedChords(in.indices, in.names, in.options)
SwitchTonality == Ready /\ \E i \in 0..3 : switchTonality(i)
Undo == Ready /\ undo
Redo == Ready /\ redo
SetTimeTolerance == Ready /\ \E t \in Tolerances : setTimeTolerance(t)

Next ==
    \/ Load
    \/ SaveFile
    \/ Transform
    \/ SwitchTonality
    \/ Undo
    \/ Redo
    \/ SetTimeTolerance

Spec == Init /\ [][Next]_vars

(***************************************************************************)
(* The codec on a corpus of well-formed files.  A corpus file is described  *)
(* by its events and encoded as the SMF format lays a file out; the corpus  *)
(* is the input of the parser, the writer runs on what the parser built.    *)
(***************************************************************************)
\* events of one corpus track, the End of Track event not counted
MaxEvents == 2

ChannelEvent(deltaTime, status, data) ==
    [deltaTime |-> deltaTime, status |-> status, data |-> data,
     isMetaEvent |-> FALSE, metaType |-> 0]

MetaEvent(deltaTime, metaType, data) ==
    [deltaTime |-> deltaTime, status |-> META_EVENT, data |-> data,
     isMetaEvent |-> TRUE, metaType |-> metaType]

\* a SysEx event as the format defines it: status, VLQ length, payload
SysExEvent(deltaTime, status, data) == ChannelEvent(deltaTime, status, data)

IsSysEx(event) == ~event.isMetaEvent /\ event.status \in {240, 247}

CorpusEvents ==
    { ChannelEvent(0, 144, <<60, 100>>),
      ChannelEvent(0, 144, <<64, 0>>),
      ChannelEvent(480, 128, <<60, 0>>),
      ChannelEvent(16384, 224, <<0, 64>>),
      ChannelEvent(0, 192, <<5>>),
      MetaEvent(0, TRACK_NAME, <<72, 105>>),
      MetaEvent(0, 81, <<7, 161, 32>>),
      SysExEvent(0, 240, <<67, 18, 0, 247>>),
      SysExEvent(0, 247, <<1, 2, 3, 4, 5>>) }

EndOfTrackEvent == MetaEvent(0, 47, <<>>)

\* the variable-length quantity of the format, for values below 2^21
VLQ(n) ==
    IF n < 128 THEN <<n>>
    ELSE IF n < 16384 THEN <<128 + (n \div 128), n % 128>>
    ELSE <<128 + (n \div 16384), 128 + ((n \div 128) % 128), n % 128>>

\* one event in the file; a channel event that repeats the status of the
\* channel event right before it may leave its status byte out
EncodeEvent(event, previous, running) ==
    VLQ(event.deltaTime)
    \o (IF event.isMetaEvent
        THEN <<event.status, event.metaType>> \o VLQ(Len(event.data)) \o event.data
        ELSE IF IsSysEx(event)
        THEN <<event.status>> \o VLQ(Len(event.data)) \o event.data
        ELSE IF running /\ previous = event.status
        THEN event.data
        ELSE <<event.status>> \o event.data)

\* the status a following event may rely on: meta and SysEx events cancel it
StatusBefore(events, k) ==
    IF k = 1 \/ events[k - 1].isMetaEvent \/ IsSysEx(events[k - 1]) THEN 0
    ELSE events[k - 1].status

EncodeTrack(events, running) ==
    MTrk(Concat([k \in DOMAIN events |->
                    EncodeEvent(events[k], StatusBefore(events, k), running)]))

EncodeFile(src) ==
    MThd(src.format, Len(src.tracks), src.division)
    \o Concat([k \in DOMAIN src.tracks |-> EncodeTrack(src.tracks[k], src.running)])

SeqsUpTo(S, n) == UNION {[1..k -> S] : k \in 0..n}

ConductorTrack == <<MetaEvent(0, TRACK_NAME, <<84>>), EndOfTrackEvent>>

\* the corpus: format 0 files of one track and format 1 files of two
Corpus ==
    { [format |-> IF two THEN 1 ELSE 0, division |-> 480, running |-> running,
       tracks |-> (IF two THEN <<ConductorTrack>> ELSE <<>>)
                  \o <<Append(events, EndOfTrackEvent)>>] :
        two \in BOOLEAN, running \in BOOLEAN,
        events \in SeqsUpTo(CorpusEvents, MaxEvents) }

\* the in-memory file a faithful parse of a corpus file holds
TrackNameOf(events, k) ==
    IF \E j \in 1..k : events[j].isMetaEvent /\ events[j].metaType = TRACK_NAME
    THEN events[CHOOSE j \in 1..k :
                   /\ events[j].isMetaEvent /\ events[j].metaType = TRACK_NAME
                   /\ \A i \in (j + 1)..k :
                        ~(events[i].isMetaEvent /\ events[i].metaType = TRACK_NAME)].data
    ELSE UnnamedTrack

Described(src) ==
    [format |-> src.format, numTracks |-> Len(src.tracks), division |-> src.division,
     tracks |-> [k \in DOMAIN src.tracks |->
                    [name |-> TrackNameOf(src.tracks[k], Len(src.tracks[k])),
                     events |-> src.tracks[k]]]]

InitCodec ==
    /\ midiFile = NewMidiFile
    /\ notes = <<>>
    /\ chords = <<>>
    /\ heap = <<>>
    /\ timeTolerance = 120
    /\ currentFilename = ""
    /\ detectionCache = <<>>
    /\ history = [actions |-> <<>>, currentPosition |-> 0]
    /\ outFile = <<>>
    /\ lastCall = Call("new", <<>>, "void")
    /\ nCalls = 0
    /\ born = <<>>
    /\ expect = (0 :> <<>>)
    /\ firstLoad = <<>>
    /\ ub = FALSE
    /\ lab = <<>>
    /\ \E src \in Corpus :
         codec = [stage |-> "file", src |-> src, buffer |-> EncodeFile(src),
                  first |-> NewMidiFile, out |-> <<>>, second |-> NewMidiFile]

CodecUnchanged ==
    UNCHANGED <<midiFile, notes, chords, heap, timeTolerance, currentFilename,
                detectionCache, history, outFile, lastCall, nCalls, born, expect,
                firstLoad, lab, ub>>

Parsed(res) ==
    /\ res.ok
    /\ ~res.oob
    /\ codec' = [codec EXCEPT !.stage = "parsed", !.first = res.midiFile]

CodecParse ==
    /\ codec.stage = "file"
    /\ Parsed(ParseBuffer(codec.buffer, 0))
    /\ CodecUnchanged

CodecWrite ==
    /\ codec.stage = "parsed"
    /\ codec' = [codec EXCEPT !.stage = "written", !.out = writeMidiFile(codec.first)]
    /\ CodecUnchanged

Reparsed(res) ==
    /\ res.ok
    /\ ~res.oob
    /\ codec' = [codec EXCEPT !.stage = "reparsed", !.second = res.midiFile]

CodecReparse ==
    /\ codec.stage = "written"
    /\ Reparsed(ParseBuffer(codec.out, 0))
    /\ CodecUnchanged

NextCodec ==
    \/ CodecParse
    \/ CodecWrite
    \/ CodecReparse

SpecCodec == InitCodec /\ [][NextCodec]_vars

(***************************************************************************)
(* Properties                                                              *)
(***************************************************************************)
\* the calls that form a run are counted, and a stopped process stays stopped
TypeOK ==
    /\ nCalls \in 0..MaxCalls
    /\ history.currentPosition \in 0..Len(history.actions)
    /\ \A k \in DOMAIN chords : chords[k] \in DOMAIN heap
    /\ Len(born) = Len(heap)

\* C1 (undo/redo law): at every journal position reached by undo or redo
\* after edits on valid chord indices of a loaded document, every chord has
\* the value (pitches, name, flag, original pitches, original name) it had
\* when the journal was at that position: n undos give the state before T1,
\* n redos after them give the state after Tn.
C1_UndoRedoLaw ==
    history.currentPosition \in DOMAIN expect
        => ChordValues = expect[history.currentPosition]

PitchesOf(cs) == [k \in DOMAIN cs |-> cs[k].notes]

SomePitchesChanged ==
    \E k \in DOMAIN chords :
        /\ heap[chords[k]].isTransformed
        /\ heap[chords[k]].notes # heap[chords[k]].originalNotes

\* the chords a fresh parse (no cache) of a saved file is segmented into
Resegmented(bytes, tol) == detectChords(extractNotes(ParseBuffer(bytes, 0).midiFile), tol)

\* C2 (save reflects the edits): once a transform has changed the pitches of
\* a chord, the file a save writes, parsed afresh and segmented, has chords
\* with the pitches of the document's chord list at the time of the save.
C2_SaveReflectsEdits ==
    (lastCall.op = "save" /\ SomePitchesChanged)
        => PitchesOf(Resegmented(outFile, timeTolerance)) = PitchesOf(ChordValues)

\* C3 (cache equivalence): the chord list right after a successful load of a
\* file equals the chord list right after the first load of that file,
\* whatever edits were made in between and whether or not the cache served
\* the load.
C3_CacheEquivalence ==
    (lastCall.op = "load" /\ lastCall.result = "true")
        => ChordValues = firstLoad[lastCall.arg]

MalformedFiles == {"bad_header.mid", "bad_track.mid", "long_track.mid"}

\* C4 (a failed load leaves the document untouched): a load that fails on a
\* malformed header, an invalid track header or a track length beyond the
\* file changes neither the chord list, nor the notes, nor the in-memory
\* MidiFile, nor the current filename.
C4_FailedLoadKeepsDocument ==
    [][(/\ lastCall'.op = "load"
        /\ lastCall'.result = "false"
        /\ lastCall'.arg \in MalformedFiles
        /\ nCalls' = nCalls + 1)
       => (/\ ChordValues' = ChordValues
           /\ notes' = notes
           /\ midiFile' = midiFile
           /\ currentFilename' = currentFilename)]_vars

\* C5 (document consistency after load): right after every successful load
\* the in-memory MidiFile (what a save writes) and the aggregated notes are
\* those of the file the current filename names.
C5_DocumentOfCurrentFile ==
    (lastCall.op = "load" /\ lastCall.result = "true")
        => /\ midiFile = ParseBuffer(FileSystem[currentFilename], 0).midiFile
           /\ notes = extractNotes(ParseBuffer(FileSystem[currentFilename], 0).midiFile)

TrackNames(mf) == [k \in DOMAIN mf.tracks |-> mf.tracks[k].name]

\* C6 (codec round-trip): for every file of the corpus, the parse of the
\* file the writer made from the first parse holds the same tracks and
\* events (delta time, status, meta type, payload) as the first parse, with
\* the same format, division and track names.
C6_CodecRoundTrip ==
    codec.stage = "reparsed"
        => /\ codec.second.tracks = codec.first.tracks
           /\ codec.second.format = codec.first.format
           /\ codec.second.division = codec.first.division
           /\ codec.second.numTracks = codec.first.numTracks
           /\ TrackNames(codec.second) = TrackNames(codec.first)

HasSysEx(src) ==
    \E t \in DOMAIN src.tracks : \E k \in DOMAIN src.tracks[t] : IsSysEx(src.tracks[t][k])

HasLongDelta(src) ==
    \E t \in DOMAIN src.tracks : \E k \in DOMAIN src.tracks[t] :
        src.tracks[t][k].deltaTime >= 128

\* a file with running status and a multi-byte delta time went round: the
\* first parse holds the events of the file, the writer spelled the status
\* bytes out, and the second parse agrees with the first
C6_Witness ==
    /\ codec.stage = "reparsed"
    /\ codec.src.running
    /\ HasLongDelta(codec.src)
    /\ codec.first = Described(codec.src)
    /\ Len(codec.out) > Len(codec.buffer)
    /\ codec.second = codec.first

\* C7 (SysEx preservation): a SysEx event of a track is kept by the parser
\* with its payload, the events after it are parsed as the file has them,
\* and the writer emits the event as the file has it.
C7_SysExPreserved ==
    HasSysEx(codec.src)
        => /\ codec.stage # "file" => codec.first = Described(codec.src)
           /\ codec.stage \in {"written", "reparsed"}
                 => codec.out = EncodeFile([codec.src EXCEPT !.running = FALSE])

InRange(indices) == SelectSeq(indices, LAMBDA x : x >= 0 /\ x < Len(chords))

\* C8 (partial batch transform): when a transform call that named valid and
\* out-of-range indices is undone right away (and the undo reads no snapshot
\* that does not exist), each valid chord returns to its own snapshot taken
\* before the call and no other chord changes.
C8_PartialBatchUndo ==
    [][(/\ lastCall.op = "transform"
        /\ InRange(lastCall.arg) # <<>>
        /\ InRange(lastCall.arg) # lastCall.arg
        /\ history.currentPosition = Len(history.actions)
        /\ lastCall'.op = "undo"
        /\ lastCall'.result = "true"
        /\ ~ub')
       => \A k \in DOMAIN chords :
            ChordValues'[k] =
                IF \E j \in DOMAIN InRange(lastCall.arg) : InRange(lastCall.arg)[j] = k - 1
                THEN history.actions[history.currentPosition].previousState[
                        CHOOSE j \in DOMAIN InRange(lastCall.arg) :
                            InRange(lastCall.arg)[j] = k - 1]
                ELSE ChordValues[k]]_vars

StrictlyAscending(ns) == \A i \in 1..(Len(ns) - 1) : ns[i] < ns[i + 1]

\* C9 (pitch-list invariant): in every reachable state the pitch list of
\* every chord of the document is strictly ascending.
C9_PitchesAscending ==
    \A k \in DOMAIN chords : StrictlyAscending(heap[chords[k]].notes)

\* C10 (transformation shadow): in every state reached without a read
\* outside a vector, a chord whose transformed flag is set holds, as original
\* pitches and original name, the pitches and the name it was detected with
\* at load.
C10_ShadowIsDetected ==
    ub \/ \A k \in DOMAIN chords :
        heap[chords[k]].isTransformed
            => /\ heap[chords[k]].originalNotes = born[chords[k]].notes
               /\ heap[chords[k]].originalName = born[chords[k]].name

(***************************************************************************)
(* Stand-alone runs of one function.  The processor is as constructed; lab *)
(* holds the input of the run and, once the function has been applied,     *)
(* its result.                                                             *)
(***************************************************************************)
Constructed ==
    /\ midiFile = NewMidiFile
    /\ notes = <<>>
    /\ chords = <<>>
    /\ heap = <<>>
    /\ timeTolerance = 120
    /\ currentFilename = ""
    /\ detectionCache = <<>>
    /\ history = [actions |-> <<>>, currentPosition |-> 0]
    /\ outFile = <<>>
    /\ lastCall = Call("new", <<>>, "void")
    /\ nCalls = 0
    /\ born = <<>>
    /\ expect = (0 :> <<>>)
    /\ firstLoad = <<>>
    /\ codec = <<>>
    /\ ub = FALSE

LabUnchanged ==
    UNCHANGED <<midiFile, notes, chords, heap, timeTolerance, currentFilename,
                detectionCache, history, outFile, lastCall, nCalls, born, expect,
                firstLoad, codec, ub>>

(***************************************************************************)
(* MidiProcessor::transformChord on a source chord, a target chord name    *)
(* and an option set                                                       *)
(***************************************************************************)
N_G == <<"G">>
N_Cm7 == <<"C", "m", "7">>

\* source chords of the low, the middle and the top registers
SourceChords ==
    { <<60, 64, 67>>, <<57, 60, 64>>, <<60, 64, 67, 71>>, <<0, 4, 7>>,
      <<120, 124, 127>> }

TargetNames == {N_C, N_F, N_G, N_Am, N_Dm7, N_Cm7}

Inversions == {-1, 0, 1, 2, 5}
Percentages == {0, 25, 50, 75, 100}

OptionSets ==
    { [DefaultTransformationOptions EXCEPT !.type = t, !.useVoiceLeading = vl] :
        t \in {STANDARD, SWITCH_TONALITY}, vl \in BOOLEAN }
    \cup { [DefaultTransformationOptions EXCEPT
              !.type = INVERSION, !.inversion = i, !.useVoiceLeading = vl] :
             i \in Inversions, vl \in BOOLEAN }
    \cup { [DefaultTransformationOptions EXCEPT
              !.type = PERCENTAGE, !.percentage = p] : p \in Percentages }

InitTransform ==
    /\ Constructed
    /\ \E V \in SourceChords, name \in TargetNames, options \in OptionSets :
         lab = [done |-> FALSE, originalNotes |-> V, targetChordName |-> name,
                options |-> options, result |-> <<>>]

ApplyTransform ==
    /\ ~lab.done
    /\ lab' = [lab EXCEPT !.done = TRUE,
                          !.result = transformChord(lab.originalNotes,
                                                    lab.targetChordName, lab.options)]
    /\ LabUnchanged

NextTransform == ApplyTransform

SpecTransform == InitTransform /\ [][NextTransform]_vars

\* C11 (pitch range after transform): for every source chord with pitches
\* in 0..127, every target chord name and every option set, each pitch of
\* the transformed chord is in 0..127.
C11_PitchRange ==
    lab.done => \A k \in DOMAIN lab.result : lab.result[k] \in 0..127

(***************************************************************************)
(* MidiProcessor::identifyChord on the inversions of the tabulated chords  *)
(***************************************************************************)
\* the roots of the voicings: the twelve pitch classes of octave 3
Roots == 48..59

\* the voicing of chordTypes[t] on root whose lowest pitch is the chord tone
\* pattern[bass], the other chord tones within the octave above it
Rotation(t, root, bass) ==
    LET pattern == chordTypes[t].pattern
        lowest == root + (pattern[bass] % 12)
    IN SortAsc([k \in DOMAIN pattern |->
                  lowest + ((pattern[k] - pattern[bass]) % 12)])

IsTabulated(intervals) == \E t \in DOMAIN chordTypes : chordTypes[t].pattern = intervals

InitNamer ==
    /\ Constructed
    /\ \E t \in DOMAIN chordTypes, root \in Roots :
         \E bass \in 2..Len(chordTypes[t].pattern) :
           /\ ~IsTabulated(normalizeChord(Rotation(t, root, bass)))
           /\ lab = [done |-> FALSE, notes |-> Rotation(t, root, bass),
                     result |-> <<>>]

ApplyNamer ==
    /\ ~lab.done
    /\ lab' = [lab EXCEPT !.done = TRUE, !.result = identifyChord(lab.notes)]
    /\ LabUnchanged

NextNamer == ApplyNamer

SpecNamer == InitNamer /\ [][NextNamer]_vars

\* the names {root}{quality}/{bass} of the tabulated chords of which ns is a
\* rotation
InversionNames(ns) ==
    { noteNames[(root % 12) + 1] \o chordTypes[t].quality \o <<"/">>
        \o noteNames[(ns[1] % 12) + 1] :
        <<t, root>> \in { p \in (DOMAIN chordTypes) \X Roots :
              \E bass \in 2..Len(chordTypes[p[1]].pattern) :
                  Rotation(p[1], p[2], bass) = ns } }

\* C12 (namer on inversions): for every rotation of a tabulated chord whose
\* interval vector is not itself a table entry, identifyChord returns
\* {root}{quality}/{bass}, with the letter of the chord's root and the
\* letter of the lowest pitch, and not the descriptive fallback.
C12_InversionNamed ==
    lab.done => lab.result \in InversionNames(lab.notes)

(***************************************************************************)
(* VoiceLeadingEngine::findOptimalVoicing on a current voicing, the        *)
(* pitches of a target chord and the engine's options                      *)
(***************************************************************************)
Voicings ==
    SourceChords \cup { <<48, 55, 62>>, <<62, 69>>, <<55, 62, 67, 74>> }

TargetChords == { getChordNotesFromName(name, 4) : name \in TargetNames }

MaxVoiceMovements == {2, 7}

VoiceLeadingOptionSets ==
    [minimizeMovement : BOOLEAN, avoidParallels : BOOLEAN,
     maintainVoiceCount : BOOLEAN, maxVoiceMovement : MaxVoiceMovements]

InitVoicing ==
    /\ Constructed
    /\ \E V \in Voicings, T \in TargetChords, opts \in VoiceLeadingOptionSets :
         lab = [done |-> FALSE, originalNotes |-> V, targetPitches |-> T,
                options |-> opts, result |-> <<>>]

ApplyVoicing ==
    /\ ~lab.done
    /\ lab' = [lab EXCEPT !.done = TRUE,
                          !.result = findOptimalVoicing(lab.targetPitches,
                                                        lab.originalNotes, lab.options)]
    /\ LabUnchanged

NextVoicing == ApplyVoicing

SpecVoicing == InitVoicing /\ [][NextVoicing]_vars

\* the candidates of the search: one octave of the window for each target
\* pitch class, no pitch above 127
Candidates(T, V) ==
    { W \in { [k \in DOMAIN T |-> (T[k] % 12) + 12 * o[k]] :
                o \in [DOMAIN T -> MinOctave(V)..MaxOctave(V)] } :
        \A k \in DOMAIN W : W[k] <= 127 }

RECURSIVE SumSeq(_, _)
SumSeq(f, n) == IF n = 0 THEN 0 ELSE f[n] + SumSeq(f, n - 1)

\* the documented cost C(W): the distances d_v to the nearest w, 10 for each
\* semitone of a d_v beyond max_voice_movement, 1000 on a voice-count
\* mismatch under maintain_voice_count, doubled under minimize_movement
DocumentedCost(V, W, opts) ==
    LET d == [v \in DOMAIN V |->
                 CHOOSE x \in {Abs(W[k] - V[v]) : k \in DOMAIN W} :
                    \A y \in {Abs(W[k] - V[v]) : k \in DOMAIN W} : x <= y]
        excess == [v \in DOMAIN V |-> Max2(0, d[v] - opts.maxVoiceMovement)]
        total == SumSeq(d, Len(V)) + 10 * SumSeq(excess, Len(V))
                 + (IF opts.maintainVoiceCount /\ Len(V) # Len(W) THEN 1000 ELSE 0)
    IN IF opts.minimizeMovement THEN 2 * total ELSE total

PassesFilter(V, W, opts) ==
    ~(opts.avoidParallels /\ hasParallelFifthsOrOctaves(V, W))

\* C13 (voice-leader optimality): the returned voicing places each target
\* pitch class in one octave of the search window, and its documented cost
\* is at most the cost of every enumerated candidate that passes the
\* parallel filter.
C13_VoicingOptimal ==
    lab.done =>
        /\ lab.result \in Candidates(lab.targetPitches, lab.originalNotes)
        /\ \A X \in Candidates(lab.targetPitches, lab.originalNotes) :
             PassesFilter(lab.originalNotes, X, lab.options)
                => DocumentedCost(lab.originalNotes, lab.result, lab.options)
                     <= DocumentedCost(lab.originalNotes, X, lab.options)

\* a run in which the filter decided: a rejected candidate is cheaper than
\* the returned voicing, and a candidate that passes is dearer
C13_Witness ==
    /\ lab.done
    /\ lab.options.avoidParallels
    /\ \E X \in Candidates(lab.targetPitches, lab.originalNotes) :
         /\ ~PassesFilter(lab.originalNotes, X, lab.options)
         /\ DocumentedCost(lab.originalNotes, X, lab.options)
              < DocumentedCost(lab.originalNotes, lab.result, lab.options)
    /\ \E X \in Candidates(lab.targetPitches, lab.originalNotes) :
         /\ PassesFilter(lab.originalNotes, X, lab.options)
         /\ DocumentedCost(lab.originalNotes, X, lab.options)
              > DocumentedCost(lab.originalNotes, lab.result, lab.options)

\* voices i and j keep a perfect fifth or an octave (an interval of 7 or 0
\* semitones modulo 12) from V to W while both move up or both move down
ParallelPair(V, W, i, j) ==
    /\ (Abs(V[i] - V[j]) % 12) \in {0, 7}
    /\ Abs(W[i] - W[j]) % 12 = Abs(V[i] - V[j]) % 12
    /\ \/ W[i] > V[i] /\ W[j] > V[j]
       \/ W[i] < V[i] /\ W[j] < V[j]

VoicePairs(V, W) ==
    { p \in (DOMAIN V \cap DOMAIN W) \X (DOMAIN V \cap DOMAIN W) : p[1] < p[2] }

MaxEvicted == 1

JournalChord == NewChord(<<60, 64, 67>>, N_C, 0, 480)

EditTarget(chord) == IF chord.name = N_C THEN N_F ELSE N_C

Edited(chord) ==
    MutateChord(chord,
                transformChord(chord.notes, EditTarget(chord),
                               DefaultTransformationOptions),
                EditTarget(chord))

EditName(n) == <<"#">> \o NatToStr(n)

InitJournal ==
    /\ midiFile = NewMidiFile
    /\ notes = <<>>
    /\ chords = <<1>>
    /\ heap = <<JournalChord>>
    /\ timeTolerance = 120
    /\ currentFilename = ""
    /\ detectionCache = <<>>
    /\ history = [actions |-> <<>>, currentPosition |-> 0]
    /\ outFile = <<>>
    /\ lastCall = Call("new", <<>>, "void")
    /\ nCalls = 0
    /\ born = <<[notes |-> JournalChord.notes, name |-> JournalChord.name]>>
    /\ expect = (0 :> <<>>)
    /\ firstLoad = <<>>
    /\ codec = <<>>
    /\ lab = [op |-> "new", base |-> 0]
    /\ ub = FALSE

JournalUnchanged ==
    UNCHANGED <<midiFile, notes, chords, timeTolerance, currentFilename,
                detectionCache, outFile, lastCall, nCalls, born, expect,
                firstLoad, codec, ub>>

Evicts == history.currentPosition = maxHistorySize

\* the chord is edited in place, then recordTransformation is called with
\* the snapshots taken before and after
JournalRecord ==
    /\ lab.base + (IF Evicts THEN 1 ELSE 0) <= MaxEvicted
    /\ heap' = [heap EXCEPT ![1] = Edited(heap[1])]
    /\ history' = recordTransformation(history, <<0>>, <<heap[1]>>, <<Edited(heap[1])>>,
                      EditName(lab.base + history.currentPosition + 1))
    /\ lab' = [op |-> "record", base |-> lab.base + (IF Evicts THEN 1 ELSE 0)]
    /\ JournalUnchanged

\* ActionManager::undo(chords)
JournalUndo ==
    /\ lab' = [lab EXCEPT !.op = "undo"]
    /\ IF ~canUndo THEN UNCHANGED <<heap, history>>
       ELSE /\ heap' = ApplyStates(heap,
                           history.actions[history.currentPosition].affectedChordIndices,
                           history.actions[history.currentPosition].previousState,
                           1, JournalChord)
            /\ history' = [history EXCEPT !.currentPosition = @ - 1]
    /\ JournalUnchanged

\* ActionManager::redo(chords)
JournalRedo ==
    /\ lab' = [lab EXCEPT !.op = "redo"]
    /\ IF ~canRedo THEN UNCHANGED <<heap, history>>
       ELSE /\ heap' = ApplyStates(heap,
                           history.actions[history.currentPosition + 1].affectedChordIndices,
                           history.actions[history.currentPosition + 1].newState,
                           1, JournalChord)
            /\ history' = [history EXCEPT !.currentPosition = @ + 1]
    /\ JournalUnchanged

\* ActionManager::clearHistory
clearHistory == [actions |-> <<>>, currentPosition |-> 0]

JournalClear ==
    /\ history' = clearHistory
    /\ lab' = [op |-> "clear", base |-> 0]
    /\ UNCHANGED heap
    /\ JournalUnchanged

NextJournal ==
    \/ JournalRecord
    \/ JournalUndo
    \/ JournalRedo
    \/ JournalClear

SpecJournal == InitJournal /\ [][NextJournal]_vars

Descriptions(actions) == [k \in DOMAIN actions |-> actions[k].description]

\* C15 (journal cursor invariant): after every record, undo, redo and clear,
\* 0 <= cursor <= journal length <= 50; right after a record the new action
\* is the last entry, the cursor equals the length and the entries before
\* the new one are those that were at or before the cursor, without the
\* oldest of them when they were already 50.
C15_JournalCursor ==
    [][/\ history'.currentPosition \in 0..Len(history'.actions)
       /\ Len(history'.actions) <= 50
       /\ lab'.op = "record"
            => /\ history'.currentPosition = Len(history'.actions)
               /\ history'.actions[Len(history'.actions)].description
                    = EditName(lab.base + history.currentPosition + 1)
               /\ history'.actions[Len(history'.actions)].newState = <<heap'[1]>>
               /\ SubSeq(history'.actions, 1, Len(history'.actions) - 1)
                    = IF history.currentPosition = 50
                      THEN SubSeq(history.actions, 2, 50)
                      ELSE SubSeq(history.actions, 1, history.currentPosition)]_vars

\* a record on a journal of 50 actions, all done: the first action of the
\* timeline is gone, the 51st is the last
C15_Witness ==
    /\ lab.op = "record"
    /\ lab.base = 1
    /\ history.currentPosition = 50
    /\ Descriptions(history.actions) = [k \in 1..50 |-> EditName(k + 1)]

(***************************************************************************)
(* switchTonality on a document whose one chord is a major-seventh chord   *)
(* in root position                                                        *)
(***************************************************************************)
SwitchRoots == 48..71

\* maj7.mid: format 0, division 480, the pitches r, r+4, r+7, r+11 from tick
\* 0 to tick 480
Maj7File(r) ==
    MThd(0, 1, 480) \o MTrk(
        <<0, 144, r, 64,  0, r + 4, 64,  0, r + 7, 64,  0, r + 11, 64>>
        \o <<131, 96, 128, r, 0,  0, r + 4, 0,  0, r + 7, 0,  0, r + 11, 0>>
        \o EndOfTrack)

\* the document after loadMidiFile("maj7.mid") on a new processor
Loaded(filename, content, mf, ns, cs) ==
    /\ midiFile = mf
    /\ notes = ns
    /\ heap = cs
    /\ chords = [k \in DOMAIN cs |-> k]
    /\ timeTolerance = 120
    /\ currentFilename = filename
    /\ detectionCache = (calculateFileHash(content) :> [k \in DOMAIN cs |-> k])
    /\ history = [actions |-> <<>>, currentPosition |-> 0]
    /\ outFile = <<>>
    /\ lastCall = Call("load", filename, "true")
    /\ nCalls = 1
    /\ born = [k \in DOMAIN cs |-> [notes |-> cs[k].notes, name |-> cs[k].name]]
    /\ expect = (0 :> cs)
    /\ firstLoad = (filename :> cs)
    /\ codec = <<>>
    /\ ub = FALSE

LoadedNotes(filename, content, mf, ns) ==
    Loaded(filename, content, mf, ns, detectChords(ns, 120))

LoadedFile(filename, content, mf) ==
    LoadedNotes(filename, content, mf, extractNotes(mf))

InitSwitch ==
    \E r \in SwitchRoots :
        /\ LoadedFile("maj7.mid", Maj7File(r), ParseBuffer(Maj7File(r), 0).midiFile)
        /\ lab = [root |-> r]

NextSwitch ==
    \/ SwitchTonality
    \/ Undo
    \/ Redo

SpecSwitch == InitSwitch /\ [][NextSwitch]_vars

\* C16 (SWITCH_TONALITY on a root-position major-seventh chord): when the
\* first edit of a chord labelled {root}maj7 with pitches r, r+4, r+7, r+11
\* is switch_tonality, the chord is named {root}m7 and has the pitches
\* r, r+3, r+7, r+10.
C16_Maj7ToMinor7 ==
    (/\ nCalls = 2
     /\ lastCall.op = "switch_tonality"
     /\ lastCall.arg = 0
     /\ born[1].name = noteNames[(lab.root % 12) + 1] \o Q_maj7)
        => /\ heap[chords[1]].name = noteNames[(lab.root % 12) + 1] \o Q_m7
           /\ heap[chords[1]].notes
                = <<lab.root, lab.root + 3, lab.root + 7, lab.root + 10>>

\* the pairs of the PERCENTAGE mode as documented: every voice of V with the
\* nearest pitch of the voice-led target, then every pitch of the target
\* that is in no pair with the voice nearest to it
NearestPairs(V, target) ==
    RemainingPairs([k \in DOMAIN V |-> <<V[k], Closest(V[k], target)>>],
                   target, 1, V)

\* x is v + (w - v) * p / 100 rounded to the nearest integer (a half may go
\* either way)
IsRounded(x, v, w, p) == 2 * Abs(100 * x - (100 * v + (w - v) * p)) <= 100

\* C17 (PERCENTAGE interpolation): the output of the PERCENTAGE mode has one
\* pitch for each documented pair (v, w) of the source and the voice-led
\* target, and that pitch is v + (w - v) * p / 100 rounded to the nearest
\* integer.
C17_PercentageRounded ==
    (lab.done /\ lab.options.type = PERCENTAGE)
        => LET pairs == NearestPairs(lab.originalNotes,
                            findOptimalVoicing(
                                getChordNotesFromName(lab.targetChordName, 4),
                                lab.originalNotes, DefaultVoiceLeadingOptions))
           IN /\ Len(lab.result) = Len(pairs)
              /\ \A k \in DOMAIN pairs :
                    IsRounded(lab.result[k], pairs[k][1], pairs[k][2],
                              lab.options.percentage)

\* C18 (INVERSION without voice leading): with k the inversion index clamped
\* to 0..|T|-1, the result is the ascending target chord with its k lowest
\* tones raised by 12, sorted again, and moved by whole octaves so that its
\* lowest pitch is in the octave of the lowest pitch of the source.
C18_InversionPlain ==
    (lab.done /\ lab.options.type = INVERSION /\ ~lab.options.useVoiceLeading)
        => LET T == SortAsc(getChordNotesFromName(lab.targetChordName, 4))
               k == Min2(Max2(lab.options.inversion, 0), Len(T) - 1)
               raised == SortAsc([i \in DOMAIN T |->
                                    IF i <= k THEN T[i] + 12 ELSE T[i]])
           IN /\ \E o \in -10..10 :
                    lab.result = [i \in DOMAIN raised |-> raised[i] + 12 * o]
              /\ SeqMin(lab.result) \div 12 = SeqMin(lab.originalNotes) \div 12

\* an inversion index beyond the chord, clamped to its last inversion, on a
\* source that lies in another octave than the target
C18_Witness ==
    /\ lab.done
    /\ lab.options.type = INVERSION
    /\ ~lab.options.useVoiceLeading
    /\ lab.options.inversion = 5
    /\ lab.targetChordName = N_Dm7
    /\ lab.originalNotes = <<0, 4, 7>>
    /\ lab.result = <<0, 2, 5, 9>>

(***************************************************************************)
(* MidiProcessor::extractNotes on parsed files of two tracks               *)
(***************************************************************************)
MaxNoteEvents == 3

NoteEvents ==
    { ChannelEvent(0, NOTE_ON, <<60, 64>>), ChannelEvent(10, NOTE_ON, <<60, 80>>),
      ChannelEvent(10, NOTE_ON + 1, <<62, 64>>), ChannelEvent(10, NOTE_ON, <<60, 0>>),
      ChannelEvent(10, NOTE_OFF, <<60, 0>>), ChannelEvent(5, NOTE_OFF, <<62, 0>>) }

SecondTracks ==
    { <<>>,
      <<ChannelEvent(5, NOTE_OFF, <<62, 0>>)>>,
      <<MetaEvent(0, TRACK_NAME, <<84>>), ChannelEvent(5, NOTE_ON, <<62, 64>>),
        ChannelEvent(5, NOTE_ON, <<62, 0>>)>> }

InitNotes ==
    /\ Constructed
    /\ \E first \in SeqsUpTo(NoteEvents, MaxNoteEvents), second \in SecondTracks :
         lab = [done |-> FALSE,
                midiFile |-> [format |-> 1, numTracks |-> 2, division |-> 480,
                              tracks |-> <<[name |-> UnnamedTrack, events |-> first],
                                           [name |-> UnnamedTrack, events |-> second]>>],
                result |-> <<>>]

ApplyNotes ==
    /\ ~lab.done
    /\ lab' = [lab EXCEPT !.done = TRUE, !.result = extractNotes(lab.midiFile)]
    /\ LabUnchanged

NextNotes == ApplyNotes

SpecNotes == InitNotes /\ [][NextNotes]_vars

\* the tick of event j of a track whose tick restarts at 0
RECURSIVE TickOf(_, _)
TickOf(events, j) == IF j = 0 THEN 0 ELSE events[j].deltaTime + TickOf(events, j - 1)

IsNoteStatus(event, type) ==
    ~event.isMetaEvent /\ (event.status \div 16) * 16 = type /\ Len(event.data) >= 2

OpensSlot(event) == IsNoteStatus(event, NOTE_ON) /\ event.data[2] > 0

ClosesSlot(event) ==
    \/ IsNoteStatus(event, NOTE_OFF)
    \/ IsNoteStatus(event, NOTE_ON) /\ event.data[2] = 0

\* the note-ons before event j (j = Len + 1: the end of the track) whose
\* slot for pitch p is open there: no closing event for p lies in between
Openers(events, p, j) ==
    { i \in 1..(j - 1) :
        /\ OpensSlot(events[i])
        /\ events[i].data[1] = p
        /\ \A m \in (i + 1)..(j - 1) :
              ~(ClosesSlot(events[m]) /\ events[m].data[1] = p) }

\* the Note of the slot of p that ends at event j, opened by the last opener
SlotNote(events, p, j, endTick) ==
    LET i == CHOOSE x \in Openers(events, p, j) :
                \A y \in Openers(events, p, j) : y <= x
    IN Note(p, TickOf(events, i), endTick - TickOf(events, i),
            events[i].data[2], events[i].status % 16)

\* what one track must emit: a Note for every closing event on an open slot
\* and one for every slot open at the end of the track, as <<cause, Note>>
\* with cause the index of the closing event or the pitch left open
TrackNotes(events) ==
    { <<"closed", j, SlotNote(events, events[j].data[1], j, TickOf(events, j))>> :
        j \in { x \in DOMAIN events :
                  /\ ClosesSlot(events[x])
                  /\ Openers(events, events[x].data[1], x) # {} } }
    \cup
    { <<"open", p, SlotNote(events, p, Len(events) + 1, TickOf(events, Len(events)))>> :
        p \in { x \in 0..127 : Openers(events, x, Len(events) + 1) # {} } }

ExpectedNotes(mf) ==
    UNION { { <<t>> \o n : n \in TrackNotes(mf.tracks[t].events) } :
              t \in DOMAIN mf.tracks }

\* C19 (note aggregation): the notes extracted from a file are, track by
\* track, one Note for each closing event on an open slot (onset: the tick
\* of the note-on that opened the slot; duration: the closing tick minus the
\* onset) and one Note for each slot open at the end of the track, ended at
\* the track's final tick; nothing else is emitted, and no slot of one track
\* is closed in the next.
C19_NoteAggregation ==
    lab.done =>
        /\ Len(lab.result) = Cardinality(ExpectedNotes(lab.midiFile))
        /\ \A n \in Range(lab.result) :
              Cardinality({k \in DOMAIN lab.result : lab.result[k] = n})
                = Cardinality({e \in ExpectedNotes(lab.midiFile) : e[4] = n})

\* a track with a closed note and a note left open, followed by a track
\* whose only event closes the pitch left open
C19_Witness ==
    /\ lab.done
    /\ lab.midiFile.tracks[1].events
         = <<ChannelEvent(10, NOTE_ON + 1, <<62, 64>>),
             ChannelEvent(0, NOTE_ON, <<60, 64>>),
             ChannelEvent(10, NOTE_OFF, <<60, 0>>)>>
    /\ lab.midiFile.tracks[2].events = <<ChannelEvent(5, NOTE_OFF, <<62, 0>>)>>
    /\ lab.result = <<Note(60, 10, 10, 64, 0), Note(62, 10, 10, 64, 1)>>

(***************************************************************************)
(* MidiProcessor::detectChords on note lists sorted by onset               *)
(***************************************************************************)
MaxNotes == 4

OnsetGaps == {0, 5, 10}
SegmentPitches == {60, 64, 67}
SegmentTolerances == {0, 5, 12}

\* the note list of the given pitches, the first at tick 0 and each next
\* one gaps[k] ticks after the one before
RECURSIVE OnsetOf(_, _)
OnsetOf(gaps, k) == IF k <= 1 THEN 0 ELSE gaps[k - 1] + OnsetOf(gaps, k - 1)

NoteList(pitches, gaps) ==
    [k \in DOMAIN pitches |-> Note(pitches[k], OnsetOf(gaps, k), 10, 64, 0)]

InitSegment ==
    /\ Constructed
    /\ \E n \in 3..MaxNotes, tol \in SegmentTolerances :
         \E pitches \in [1..n -> SegmentPitches], gaps \in [1..(n - 1) -> OnsetGaps] :
            lab = [done |-> FALSE, notes |-> NoteList(pitches, gaps),
                   timeTolerance |-> tol,
                   groups |-> [chordStartTimes |-> <<>>, timeToNotes |-> <<>>],
                   result |-> <<>>]

\* detectChords, with the groups of its first loop kept beside its result
ApplySegment ==
    /\ ~lab.done
    /\ lab' = [lab EXCEPT
                 !.done = TRUE,
                 !.groups = GroupNotes(lab.groups, lab.notes, 1, lab.timeTolerance),
                 !.result = detectChords(lab.notes, lab.timeTolerance)]
    /\ LabUnchanged

NextSegment == ApplySegment

SpecSegment == InitSegment /\ [][NextSegment]_vars

\* the first-created anchor within tau of the onset of note
FirstAnchor(anchors, note, tau) ==
    anchors[CHOOSE i \in DOMAIN anchors :
               /\ Abs(note.startTime - anchors[i]) <= tau
               /\ \A j \in 1..(i - 1) : Abs(note.startTime - anchors[j]) > tau]

\* the pitches of the notes assigned to anchor a, in note order
AssignedTo(a, anchors, ns, tau) ==
    LET mine == SelectSeq(ns, LAMBDA note : FirstAnchor(anchors, note, tau) = a)
    IN [k \in DOMAIN mine |-> mine[k].pitch]

MaxLeadNotes == 2

LeadDurations == {10, 40}
TriadDurations == {10, 20}
DurationTolerances == {5}

TimedNoteList(pitches, gaps, durations) ==
    [k \in DOMAIN pitches |-> Note(pitches[k], OnsetOf(gaps, k), durations[k], 64, 0)]

InitDuration ==
    /\ Constructed
    /\ \E n \in 0..MaxLeadNotes, tol \in DurationTolerances :
         \E gaps \in [1..(n + 2) -> OnsetGaps],
            lead \in [1..n -> LeadDurations], triad \in [1..3 -> TriadDurations] :
            lab = [done |-> FALSE,
                   notes |-> TimedNoteList([k \in 1..n |-> 72] \o <<60, 64, 67>>,
                                           gaps, lead \o triad),
                   timeTolerance |-> tol,
                   groups |-> [chordStartTimes |-> <<>>, timeToNotes |-> <<>>],
                   result |-> <<>>]

SpecDuration == InitDuration /\ [][NextSegment]_vars

\* the longest duration among the notes assigned to anchor a
MemberDuration(a, anchors, ns, tau) ==
    LET mine == SelectSeq(ns, LAMBDA note : FirstAnchor(anchors, note, tau) = a)
    IN SeqMax([k \in DOMAIN mine |-> mine[k].duration])

\* C21 (chord duration): a chord on a non-terminal anchor lasts until the
\* next anchor in ascending order; a chord on the last anchor lasts as long
\* as the longest of the notes assigned to that anchor.
C21_ChordDuration ==
    lab.done =>
      LET anchors == lab.groups.chordStartTimes
      IN \A c \in DOMAIN lab.result :
           LET a == lab.result[c].startTime
               later == {x \in Range(anchors) : x > a}
           IN lab.result[c].duration
                = IF later # {}
                  THEN (CHOOSE x \in later : \A y \in later : x <= y) - a
                  ELSE MemberDuration(a, anchors, lab.notes, lab.timeTolerance)

(***************************************************************************)
(* The event loop of one track, iteration by iteration                     *)
(***************************************************************************)
MaxPieces == 3

NoteOnPiece == <<0, NOTE_ON, 60, 64>>
RunningPiece == <<0, 60, 0>>
TrackNamePiece == <<0, META_EVENT, TRACK_NAME, 1, 65>>
SysExPiece == <<0, 240, 1, 247>>
ProgramPiece == <<0, PROGRAM_CHANGE>>
LongDeltaPiece == <<129, 128, 128, 128, 0, NOTE_ON, 60, 64>>
LongNamePiece == <<0, META_EVENT, TRACK_NAME, 5, 65>>

TrackPieces ==
    { NoteOnPiece, RunningPiece, TrackNamePiece, SysExPiece, ProgramPiece,
      LongDeltaPiece, LongNamePiece, EndOfTrack }

TrackBodies == {Concat(ps) : ps \in SeqsUpTo(TrackPieces, MaxPieces)}

\* a format 0 file of one track whose header declares `declared` bytes
TrackFile(body, declared) ==
    MThd(0, 1, 480) \o <<77, 84, 114, 107, 0, 0, 0, declared>> \o body

\* the state loadMidiFile is in when it enters the event loop of the track
InitEvents ==
    /\ Constructed
    /\ \E body \in TrackBodies : \E declared \in 0..Len(body) :
         lab = [done |-> FALSE, buffer |-> TrackFile(body, declared),
                trackEnd |-> 22 + declared,
                st |-> [position |-> 22, runningStatus |-> 0,
                        track |-> NewMidiTrack, oob |-> FALSE]]

\* one iteration of while (position < trackEnd)
EventStep ==
    /\ ~lab.done
    /\ lab.st.position < lab.trackEnd
    /\ \E g \in GarbageBytes :
         lab' = [lab EXCEPT !.st = ParseEvent(lab.buffer, lab.trackEnd, lab.st, g)]
    /\ LabUnchanged

\* the loop condition fails: the track is stored and load goes on
LoopExit ==
    /\ ~lab.done
    /\ lab.st.position >= lab.trackEnd
    /\ lab' = [lab EXCEPT !.done = TRUE]
    /\ LabUnchanged

NextEvents ==
    \/ EventStep
    \/ LoopExit

SpecEvents == InitEvents /\ [][NextEvents]_vars

\* offset of the byte after the delta time of the event at the read position
AfterDelta == readVariableLength(lab.buffer, lab.st.position).position

\* status of the most recent channel event stored for the track, 0 if none
LastChannelStatus(events) ==
    LET ks == {k \in DOMAIN events :
                  ~events[k].isMetaEvent /\ events[k].status \in 128..239}
    IN IF ks = {} THEN 0
       ELSE events[CHOOSE k \in ks : \A j \in ks : j <= k].status

\* C22 (running status): when the byte after an event's delta time has its
\* MSB clear and the track already holds a channel event, the iteration
\* stores a channel event with the status of the most recent channel event
\* and with that byte as its first data byte, also when a meta or SysEx
\* event came in between.
C22_RunningStatus ==
    [][(/\ ~lab.done
        /\ lab.st.position < lab.trackEnd
        /\ AfterDelta < lab.trackEnd
        /\ lab.buffer[AfterDelta + 1] < 128
        /\ LastChannelStatus(lab.st.track.events) # 0)
       => (/\ Len(lab'.st.track.events) = Len(lab.st.track.events) + 1
           /\ LET event == lab'.st.track.events[Len(lab'.st.track.events)]
              IN /\ ~event.isMetaEvent
                 /\ event.status = LastChannelStatus(lab.st.track.events)
                 /\ event.data # <<>>
                 /\ event.data[1] = lab.buffer[AfterDelta + 1])]_vars

\* C23 (bounded decoding): the parser never reads a byte at or beyond the
\* end of the buffer, and the loop never accepts a track in which an event
\* runs past the declared byte window of the track (the read position ends
\* beyond trackEnd) or whose delta time took more than four bytes (a value
\* of 2^28 or more): such input makes load fail.
C23_BoundedDecoding ==
    /\ ~lab.st.oob
    /\ lab.done =>
         /\ lab.st.position = lab.trackEnd
         /\ \A k \in DOMAIN lab.st.track.events :
              lab.st.track.events[k].deltaTime < 268435456

MaxFairPieces == 2

\* one piece for each path of the loop body
FairPieces ==
    { NoteOnPiece, RunningPiece, TrackNamePiece, SysExPiece, ProgramPiece,
      LongDeltaPiece }

InitEventsFair ==
    /\ Constructed
    /\ \E ps \in SeqsUpTo(FairPieces, MaxFairPieces) :
         \E declared \in 0..Len(Concat(ps)) :
           lab = [done |-> FALSE, buffer |-> TrackFile(Concat(ps), declared),
                  trackEnd |-> 22 + declared,
                  st |-> [position |-> 22, runningStatus |-> 0,
                          track |-> NewMidiTrack, oob |-> FALSE]]

\* the loop is sequential code: an iteration that can run does run
SpecEventsFair == InitEventsFair /\ [][NextEvents]_vars /\ WF_vars(NextEvents)

ProgressionPattern(chordQualities, name, commonKeys) ==
    [chordQualities |-> chordQualities, name |-> name, commonKeys |-> commonKeys]

\* knownPatterns after loadPatterns; a name is kept as one piece of text
knownPatterns ==
    << ProgressionPattern(<<Q_m7, Q_7, Q_maj7>>, <<"ii-V-I">>,
           <<<<"C">>, <<"F">>, <<"B", "b">>, <<"E", "b">>, <<"G">>, <<"D">>, <<"A">>>>),
       ProgressionPattern(<<Q_maj, Q_maj, Q_maj>>, <<"I-IV-V">>,
           <<<<"C">>, <<"G">>, <<"D">>, <<"A">>, <<"E">>, <<"F">>>>),
       ProgressionPattern(<<Q_maj, Q_maj, Q_m, Q_maj>>, <<"I-V-vi-IV">>,
           <<<<"C">>, <<"G">>, <<"D">>, <<"A">>, <<"F">>>>),
       ProgressionPattern(<<Q_maj, Q_m, Q_maj, Q_maj>>, <<"I-vi-IV-V (50s)">>,
           <<<<"C">>, <<"G">>, <<"D">>, <<"A">>, <<"F">>>>),
       ProgressionPattern(<<Q_m, Q_maj, Q_maj, Q_maj>>, <<"vi-IV-I-V">>,
           <<<<"C">>, <<"G">>, <<"D">>, <<"A">>, <<"F">>>>),
       ProgressionPattern(<<Q_maj, Q_maj, Q_m, Q_m, Q_maj, Q_maj, Q_maj, Q_maj>>,
           <<"Canon Progression">>, <<<<"D">>, <<"G">>, <<"C">>>>),
       ProgressionPattern(<<Q_m, Q_maj, Q_maj, Q_maj>>, <<"Andalusian Cadence">>,
           <<<<"A", "m">>, <<"E", "m">>, <<"D", "m">>>>),
       ProgressionPattern(<<Q_maj, Q_maj, Q_maj>>, <<"Mixolydian Vamp">>,
           <<<<"G">>, <<"D">>, <<"A">>, <<"E">>>>),
       ProgressionPattern(<<Q_m, Q_m, Q_m>>, <<"Minor Blues">>,
           <<<<"A", "m">>, <<"E", "m">>, <<"D", "m">>, <<"G", "m">>>>),
       ProgressionPattern(<<Q_maj, Q_7, Q_maj, Q_m>>, <<"Major-Minor Change">>,
           <<<<"C">>, <<"G">>, <<"D">>, <<"F">>>>) >>

\* what one chord adds to matchScore, in halves; -1 when the window is given up
QualityScore(chordQuality, patternQuality) ==
    IF \/ IsPrefix(patternQuality, chordQuality)
       \/ /\ patternQuality = <<>>
          /\ chordQuality \in {<<>>, Q_maj7, Q_6, Q_9}
    THEN 2
    ELSE IF /\ patternQuality # <<>>
            /\ chordQuality # <<>>
            /\ chordQuality[1] = patternQuality[1]
    THEN 1
    ELSE -1

\* the inner loop over the pattern positions from position i on, with its break
RECURSIVE WindowScore(_, _, _, _)
WindowScore(chordParts, pattern, startIdx, i) ==
    IF i >= Len(pattern.chordQualities) THEN [potentialMatch |-> TRUE, matchScore |-> 0]
    ELSE LET s == QualityScore(chordParts[startIdx + i + 1].quality,
                               pattern.chordQualities[i + 1])
             rest == WindowScore(chordParts, pattern, startIdx, i + 1)
         IN IF s = -1 \/ ~rest.potentialMatch
            THEN [potentialMatch |-> FALSE, matchScore |-> 0]
            ELSE [potentialMatch |-> TRUE, matchScore |-> s + rest.matchScore]

\* a confidence is the fraction num / den
AtLeast(confidence, num, den) == confidence.num * den >= num * confidence.den

Greater(a, b) == a.num * b.den > b.num * a.den

\* matchScore / size, times 1.2 for a common key and 0.8 otherwise
Confidence(matchScore, size, keyMatch) ==
    [num |-> matchScore * (IF keyMatch THEN 12 ELSE 8), den |-> 2 * size * 10]

\* the progressions one window of one pattern adds to results
WindowMatches(chordParts, pattern, startIdx) ==
    LET w == WindowScore(chordParts, pattern, startIdx, 0)
        size == Len(pattern.chordQualities)
        possibleKey == chordParts[startIdx + 1].rootNote
        keyMatch == \E k \in DOMAIN pattern.commonKeys :
                        \/ pattern.commonKeys[k] = possibleKey
                        \/ pattern.commonKeys[k] = possibleKey \o <<"m">>
        confidence == Confidence(w.matchScore, size, keyMatch)
    IN IF w.potentialMatch /\ AtLeast(confidence, 6, 10)
       THEN <<[progressionName |-> pattern.name \o <<" in ">> \o possibleKey,
               confidence |-> confidence,
               chordIndices |-> [i \in 1..size |-> startIdx + i - 1]]>>
       ELSE <<>>

PatternMatches(chordParts, pattern) ==
    IF Len(pattern.chordQualities) > Len(chordParts) THEN <<>>
    ELSE Concat([k \in 1..(Len(chordParts) - Len(pattern.chordQualities) + 1) |->
                    WindowMatches(chordParts, pattern, k - 1)])

\* the orders std::sort may leave a set of progressions in: descending
\* confidence, equal confidences in any order
RECURSIVE SortedOrders(_)
SortedOrders(ms) ==
    IF ms = {} THEN {<<>>}
    ELSE UNION {{<<m>> \o r : r \in SortedOrders(ms \ {m})} :
                   m \in {x \in ms : \A y \in ms : ~Greater(y.confidence, x.confidence)}}

\* the results of detectProgressions before the final sort; names are the
\* names of the chords
FoundProgressions(names) ==
    IF Len(names) < 2 THEN <<>>
    ELSE LET chordParts == [k \in DOMAIN names |-> utils_parseChordName(names[k])]
         IN Concat([p \in DOMAIN knownPatterns |->
                       PatternMatches(chordParts, knownPatterns[p])])

detectProgressions(names) == SortedOrders(Range(FoundProgressions(names)))

MaxProgressionChords == 3

ProgressionRoots == {<<"C">>, <<"D">>, <<"F">>, <<"G">>, <<"A">>}

ProgressionQualities == {Q_maj, Q_m, Q_dim, Q_7, Q_m7, Q_maj7}

ChordNames == {root \o quality : root \in ProgressionRoots, quality \in ProgressionQualities}

InitProgression ==
    /\ Constructed
    /\ \E names \in SeqsUpTo(ChordNames, MaxProgressionChords) :
         lab = [done |-> FALSE, names |-> names, result |-> <<>>]

ApplyProgression ==
    /\ ~lab.done
    /\ \E result \in detectProgressions(lab.names) :
         lab' = [lab EXCEPT !.done = TRUE, !.result = result]
    /\ LabUnchanged

NextProgression == ApplyProgression

SpecProgression == InitProgression /\ [][NextProgression]_vars

\* the score the documentation gives a chord for a pattern position, in halves
DocumentedScore(chordQuality, patternQuality) ==
    IF \/ chordQuality = patternQuality
       \/ patternQuality = <<>> /\ chordQuality \in {<<>>, Q_maj7, Q_6, Q_9}
    THEN 2
    ELSE IF /\ patternQuality # <<>>
            /\ chordQuality # <<>>
            /\ chordQuality[1] = patternQuality[1]
    THEN 1
    ELSE -1

\* C24 (window scoring): a progression is reported for a pattern and a
\* window only if no chord of the window is a mismatch, where a chord scores
\* 1.0 when its quality equals the pattern quality (or the pattern quality
\* is "" and the chord quality is "", maj7, 6 or 9), 0.5 when the qualities
\* differ but share the first letter, and is a mismatch otherwise; the
\* reported confidence is that score sum over the window length, times 1.2
\* or 0.8.
C24_WindowScoring ==
    lab.done =>
      \A r \in DOMAIN lab.result : \A p \in DOMAIN knownPatterns :
        LET m == lab.result[r]
            pattern == knownPatterns[p]
            size == Len(pattern.chordQualities)
            scores == [i \in 1..size |->
                          DocumentedScore(
                              utils_parseChordName(lab.names[m.chordIndices[i] + 1]).quality,
                              pattern.chordQualities[i])]
        IN (IsPrefix(pattern.name, m.progressionName) /\ Len(m.chordIndices) = size)
             => /\ \A i \in 1..size : scores[i] # -1
                /\ \E keyMatch \in BOOLEAN :
                     LET c == Confidence(SumSeq(scores, size), size, keyMatch)
                     IN c.num * m.confidence.den = m.confidence.num * c.den

\* major keys among the common keys of ii-V-I whose second and fifth degrees
\* are roots of the input set: <<I, ii, V>>
TwoFiveOnes ==
    { <<<<"C">>, <<"D">>, <<"G">>>>,
      <<<<"F">>, <<"G">>, <<"C">>>>,
      <<<<"G">>, <<"A">>, <<"D">>>> }

\* C25 (ii-V-I names the tonic): for the chords {ii}m7, {V}7, {I}maj7 of a
\* major key K that is a common key of the pattern, detectProgressions
\* reports "ii-V-I in K" with a confidence of at least 0.72.
C25_TwoFiveOneInTonic ==
    lab.done =>
      \A k \in TwoFiveOnes :
        lab.names = <<k[2] \o Q_m7, k[3] \o Q_7, k[1] \o Q_maj7>>
          => \E r \in DOMAIN lab.result :
               /\ lab.result[r].progressionName = <<"ii-V-I", " in ">> \o k[1]
               /\ AtLeast(lab.result[r].confidence, 72, 100)

(***************************************************************************)
(* Key detector                                                            *)
(***************************************************************************)
majorRoots ==
    << <<"C">>, <<"G">>, <<"D">>, <<"A">>, <<"E">>, <<"B">>, <<"F", "#">>,
       <<"C", "#">>, <<"F">>, <<"B", "b">>, <<"E", "b">>, <<"A", "b">>,
       <<"D", "b">>, <<"G", "b">>, <<"C", "b">> >>

minorRoots ==
    << <<"A">>, <<"E">>, <<"B">>, <<"F", "#">>, <<"C", "#">>, <<"G", "#">>,
       <<"D", "#">>, <<"A", "#">>, <<"D">>, <<"G">>, <<"C">>, <<"F">>,
       <<"B", "b">>, <<"E", "b">>, <<"A", "b">> >>

\* a KeySignature whose scale starts on pitch class rootMidiNote
KeySignature(root, isMajor, rootMidiNote) ==
    [rootNote |-> root, isMajor |-> isMajor,
     scaleDegrees |->
        IF isMajor
        THEN [i \in 1..7 |-> (rootMidiNote + <<0, 2, 4, 5, 7, 9, 11>>[i]) % 12]
        ELSE [i \in 1..7 |-> (rootMidiNote + <<0, 2, 3, 5, 7, 8, 10>>[i]) % 12],
     diatonicChords |->
        IF isMajor THEN <<Q_maj, Q_m, Q_m, Q_maj, Q_maj, Q_m, Q_dim>>
        ELSE <<Q_m, Q_dim, Q_maj, Q_m, Q_m, Q_maj, Q_maj>>]

KeyNames == Range(majorRoots) \cup {minorRoots[k] \o <<"m">> : k \in DOMAIN minorRoots}

\* the root a key name stands for
KeyRoot(keyName) ==
    IF keyName \in Range(majorRoots) THEN keyName
    ELSE SubSeq(keyName, 1, Len(keyName) - 1)

\* keySignatures after initializeKeySignatures
keySignatures ==
    [keyName \in KeyNames |->
        KeySignature(KeyRoot(keyName), keyName \in Range(majorRoots),
                     noteNameToMidi(KeyRoot(keyName)) % 12)]

RECURSIVE CountNotes(_, _)
CountNotes(ns, pitchClasses) ==
    IF ns = <<>> THEN 0
    ELSE (IF ns[1] % 12 \in pitchClasses THEN 1 ELSE 0) + CountNotes(Tail(ns), pitchClasses)

\* every note of every chord, in order
AllNotes(cs) == Concat([k \in DOMAIN cs |-> cs[k].notes])

\* the score of one key, as the numerator of a fraction over
\* totalNotes * 2000000: the share of notes in the key, times 1.2, 1.1 and
\* 1.05 for a tonic, dominant and subdominant pitch class that occurs, times
\* 1.3, 1.2 and 1.1 for a tonic, dominant and subdominant chord
KeyScore(key, tonic, cs) ==
    LET dominant == (tonic + 7) % 12
        subdominant == (tonic + 5) % 12
        all == AllNotes(cs)
        rootOf(k) == noteNameToMidi(utils_parseChordName(cs[k].name).rootNote) % 12
        qualityOf(k) == utils_parseChordName(cs[k].name).quality
        hasTonicChord ==
            \E k \in DOMAIN cs :
                /\ rootOf(k) = tonic
                /\ \/ key.isMajor /\ qualityOf(k) \in {Q_maj, Q_maj7, Q_6}
                   \/ ~key.isMajor /\ qualityOf(k) \in {Q_m, Q_m7}
        hasDominantChord ==
            \E k \in DOMAIN cs :
                /\ rootOf(k) # tonic
                /\ rootOf(k) = dominant
                /\ qualityOf(k) \in {Q_maj, Q_7}
        hasSubdominantChord ==
            \E k \in DOMAIN cs :
                /\ rootOf(k) # tonic
                /\ rootOf(k) # dominant
                /\ rootOf(k) = subdominant
                /\ \/ key.isMajor /\ qualityOf(k) \in {Q_maj, Q_maj7}
                   \/ ~key.isMajor /\ qualityOf(k) \in {Q_m, Q_m7}
    IN CountNotes(all, Range(key.scaleDegrees))
       * (IF CountNotes(all, {tonic}) > 0 THEN 12 ELSE 10)
       * (IF CountNotes(all, {dominant}) > 0 THEN 11 ELSE 10)
       * (IF CountNotes(all, {subdominant}) > 0 THEN 21 ELSE 20)
       * (IF hasTonicChord THEN 13 ELSE 10)
       * (IF hasDominantChord THEN 12 ELSE 10)
       * (IF hasSubdominantChord THEN 11 ELSE 10)

\* score >= 0.6 for a score numerator
Confident(score, cs) == score * 10 >= 6 * Len(AllNotes(cs)) * 2000000

\* the pointers detectKey may return, <<>> for nullptr: which of several
\* keys of the same best score is found first depends on the iteration order
\* of the unordered_map
detectKey(cs) ==
    IF cs = <<>> THEN {<<>>}
    ELSE LET keyScores == [keyName \in KeyNames |->
                              KeyScore(keySignatures[keyName],
                                       noteNameToMidi(keySignatures[keyName].rootNote) % 12,
                                       cs)]
             best == {keyName \in KeyNames :
                         \A other \in KeyNames : keyScores[other] <= keyScores[keyName]}
         IN {IF Confident(keyScores[keyName], cs) THEN <<keySignatures[keyName]>> ELSE <<>> :
                keyName \in best}

MaxKeyChords == 2

NamedChord(name, ns) == [name |-> name, notes |-> ns]

KeyChords ==
    { NamedChord(N_C, <<60, 64, 67>>), NamedChord(N_F, <<65, 69, 72>>),
      NamedChord(N_G, <<67, 71, 74>>), NamedChord(N_Am, <<57, 60, 64>>),
      NamedChord(<<"B">>, <<59, 63, 66>>), NamedChord(<<"F", "#">>, <<66, 70, 73>>),
      NamedChord(<<"E", "m">>, <<64, 67, 71>>),
      NamedChord(<<"C">>, <<60, 61, 62, 63, 64, 65, 66, 67, 68, 69, 70, 71>>) }

InitKey ==
    /\ Constructed
    /\ \E cs \in SeqsUpTo(KeyChords, MaxKeyChords) :
         lab = [done |-> FALSE, chords |-> cs, result |-> <<>>]

ApplyKey ==
    /\ ~lab.done
    /\ \E result \in detectKey(lab.chords) :
         lab' = [lab EXCEPT !.done = TRUE, !.result = result]
    /\ LabUnchanged

NextKey == ApplyKey

SpecKey == InitKey /\ [][NextKey]_vars

\* the pitch class a root name stands for: the letter, raised by # and
\* lowered by b
NamedPitchClass(root) ==
    LET letter == CASE root[1] = "C" -> 0 [] root[1] = "D" -> 2 [] root[1] = "E" -> 4
                    [] root[1] = "F" -> 5 [] root[1] = "G" -> 7 [] root[1] = "A" -> 9
                    [] root[1] = "B" -> 11
    IN IF Len(root) = 1 THEN letter
       ELSE IF root[2] = "#" THEN (letter + 1) % 12
       ELSE (letter + 11) % 12

\* the candidate a key name stands for, built on its own named root
NamedKey(keyName) ==
    KeySignature(KeyRoot(keyName), keyName \in Range(majorRoots),
                 NamedPitchClass(KeyRoot(keyName)))

NamedScore(keyName, cs) ==
    KeyScore(NamedKey(keyName), NamedPitchClass(KeyRoot(keyName)), cs)

\* C26 (key detection result): on an empty chord list detectKey returns no
\* key; otherwise it returns a key only if that key is a candidate built on
\* its own named root (scale, tonic, dominant and subdominant), its score is
\* at least 0.6 and no candidate has a higher score, and it returns no key
\* only if no candidate reaches 0.6.
C26_KeyDetection ==
    lab.done =>
      IF lab.chords = <<>> THEN lab.result = <<>>
      ELSE IF lab.result = <<>>
      THEN \A keyName \in KeyNames : ~Confident(NamedScore(keyName, lab.chords), lab.chords)
      ELSE \E keyName \in KeyNames :
             /\ lab.result[1] = NamedKey(keyName)
             /\ Confident(NamedScore(keyName, lab.chords), lab.chords)
             /\ \A other \in KeyNames :
                  NamedScore(other, lab.chords) <= NamedScore(keyName, lab.chords)

\* C27 (the journal is per document): a successful load leaves nothing to
\* undo or redo in the journal, and an undo or redo issued right after a
\* successful load changes no chord of the loaded chord list.
C27_JournalPerDocument ==
    [][/\ (lastCall'.op = "load" /\ lastCall'.result = "true")
            => (history'.currentPosition = 0 /\ history'.actions = <<>>)
       /\ (/\ lastCall.op = "load"
           /\ lastCall.result = "true"
           /\ lastCall'.op \in {"undo", "redo"})
            => ChordValues' = ChordValues]_vars

\* C28 (cache coherence with the tick tolerance): right after a successful
\* load, in a run without edits, the chord list is the one segmentation of
\* the loaded file with the current tolerance produces, also when the same
\* content was loaded before under another tolerance.
C28_CacheTolerance ==
    (lastCall.op = "load" /\ lastCall.result = "true" /\ history.actions = <<>>)
        => ChordValues = Resegmented(FileSystem[currentFilename], timeTolerance)

\* C29 (PERCENTAGE endpoints): a PERCENTAGE transform with p = 0 returns the
\* source pitch list unchanged, and with p = 100 returns the voice-led target
\* a STANDARD transform with voice leading returns for the same source and
\* target, also when the target has another number of tones than the source.
C29_PercentageEndpoints ==
    (lab.done /\ lab.options.type = PERCENTAGE)
        => /\ lab.options.percentage = 0 => lab.result = lab.originalNotes
           /\ lab.options.percentage = 100
                => lab.result = transformChord(lab.originalNotes, lab.targetChordName,
                                    [lab.options EXCEPT !.type = STANDARD,
                                                        !.useVoiceLeading = TRUE])

====
